---- MODULE Spec2Model ----
(***************************************************************************)
(* A model of pandss: DatasetPath, DatasetPathCollection / Catalog, the    *)
(* engines behind them and the DSS object that orchestrates reads, writes  *)
(* and wildcard resolution over one DSS file.                              *)
(*                                                                         *)
(* Strings are sequences of one-character strings, so that str(), the      *)
(* regular-expression scan and the wildcard tests are computed character   *)
(* by character, as the code computes them.                                *)
(***************************************************************************)
EXTENDS Integers, Sequences, FiniteSets, TLC

(***************************************************************************)
(* Characters and strings                                                  *)
(***************************************************************************)

\* Code point of a character of the model's alphabet (Python compares str
\* by code point).
Ord(c) ==
    CASE c = "\n" -> 10
      [] c = "*" -> 42
      [] c = "." -> 46
      [] c = "/" -> 47
      [] c = "1" -> 49
      [] c = "2" -> 50
      [] c = "A" -> 65
      [] c = "B" -> 66
      [] c = "C" -> 67
      [] c = "D" -> 68
      [] c = "E" -> 69
      [] c = "F" -> 70
      [] c = "N" -> 78
      [] c = "Y" -> 89
      [] c = "Z" -> 90
      [] c = "a" -> 97
      [] c = "b" -> 98

\* Case folding of re.IGNORECASE.
Fold(c) ==
    CASE c = "a" -> "A"
      [] c = "b" -> "B"
      [] OTHER -> c

\* Python's str < str.
RECURSIVE StrLess(_, _)
StrLess(s, t) ==
    IF s = <<>> THEN t # <<>>
    ELSE IF t = <<>> THEN FALSE
    ELSE IF s[1] = t[1] THEN StrLess(Tail(s), Tail(t))
    ELSE Ord(s[1]) < Ord(t[1])

\* str.lstrip("/") and str.rstrip("/").
RECURSIVE LStrip(_)
LStrip(s) == IF s # <<>> /\ s[1] = "/" THEN LStrip(Tail(s)) ELSE s

RECURSIVE RStrip(_)
RStrip(s) ==
    IF s # <<>> /\ s[Len(s)] = "/" THEN RStrip(SubSeq(s, 1, Len(s) - 1)) ELSE s

\* str.split("/"): the list of segments between the delimiters.
RECURSIVE SplitFrom(_, _, _)
SplitFrom(s, i, cur) ==
    IF i > Len(s) THEN <<cur>>
    ELSE IF s[i] = "/" THEN <<cur>> \o SplitFrom(s, i + 1, <<>>)
    ELSE SplitFrom(s, i + 1, Append(cur, s[i]))

Split(s) == SplitFrom(s, 1, <<>>)

(***************************************************************************)
(* DatasetPath: six parts a..f, each a string                              *)
(***************************************************************************)

WILDCARD_STR == <<".", "*">>

\* WILDCARD_PATTERN_LITERAL.findall(s) is non-empty: s contains ".*".
HasWildcardLiteral(s) ==
    \E i \in 1..(Len(s) - 1) : s[i] = "." /\ s[i + 1] = "*"

DP(a, b, c, d, e, f) == <<a, b, c, d, e, f>>

\* DatasetPath.__str__
PathStr(p) ==
    <<"/">> \o p[1] \o <<"/">> \o p[2] \o <<"/">> \o p[3] \o <<"/">>
            \o p[4] \o <<"/">> \o p[5] \o <<"/">> \o p[6] \o <<"/">>

\* A has_wildcard that also counts the D part: the slip that has_wildcard avoids.
has_wildcard_with_d(p) == HasWildcardLiteral(PathStr(p))

\* DatasetPath.has_wildcard: wildcards in a, b, c, e, f; the D part is left out.
has_wildcard(p) ==
    HasWildcardLiteral(
        <<"/">> \o p[1] \o <<"/">> \o p[2] \o <<"/">> \o p[3] \o <<"/", "/">>
                \o p[5] \o <<"/">> \o p[6] \o <<"/">>)

\* DatasetPath.has_any_wildcard: wildcards in any part, D included.
has_any_wildcard(p) == HasWildcardLiteral(PathStr(p))

\* A drop_date that returns the path as it is.
keep_date(p) == p

\* DatasetPath.drop_date
drop_date(p) == DP(p[1], p[2], p[3], WILDCARD_STR, p[5], p[6])

\* The dataclass order (order=True): tuples of parts, compared part by part.
RECURSIVE PartsLess(_, _, _)
PartsLess(p, q, i) ==
    IF i > 6 THEN FALSE
    ELSE IF p[i] = q[i] THEN PartsLess(p, q, i + 1)
    ELSE StrLess(p[i], q[i])

\* The comparison turned round.
PathMore(p, q) == PartsLess(q, p, 1)

PathLess(p, q) == PartsLess(p, q, 1)

(***************************************************************************)
(* The regular expressions of re.compile(str(path), flags=IGNORECASE)      *)
(* over the model's alphabet: literals, "." and the "*" repeat.            *)
(***************************************************************************)

\* re.compile raises re.error: nothing to repeat / multiple repeat.
RegexError(pat) ==
    \/ (pat # <<>> /\ pat[1] = "*")
    \/ \E i \in 1..(Len(pat) - 1) : pat[i] = "*" /\ pat[i + 1] = "*"

\* The compiled pattern: a sequence of atoms, each repeated or not.
RECURSIVE Compile(_, _)
Compile(pat, i) ==
    IF i > Len(pat) THEN <<>>
    ELSE IF i + 1 <= Len(pat) /\ pat[i + 1] = "*"
         THEN <<[ch |-> pat[i], star |-> TRUE]>> \o Compile(pat, i + 2)
         ELSE <<[ch |-> pat[i], star |-> FALSE]>> \o Compile(pat, i + 1)

\* One atom against one character: "." is any character but the newline,
\* a literal matches up to case.
AtomMatches(ch, c) == IF ch = "." THEN c # "\n" ELSE Fold(ch) = Fold(c)

\* The longest run of characters from pos that the atom matches.
RECURSIVE Run(_, _, _)
Run(ch, text, pos) ==
    IF pos <= Len(text) /\ AtomMatches(ch, text[pos])
    THEN 1 + Run(ch, text, pos + 1)
    ELSE 0

\* The backtracking matcher: the end (next position) of the first match of
\* re[k..] at pos in the engine's order (greedy repeats first), 0 for none.
RECURSIVE MatchFrom(_, _, _, _)
RECURSIVE TryStar(_, _, _, _, _)
MatchFrom(re, k, text, pos) ==
    IF k > Len(re) THEN pos
    ELSE IF re[k].star THEN TryStar(re, k, text, pos, Run(re[k].ch, text, pos))
    ELSE IF pos <= Len(text) /\ AtomMatches(re[k].ch, text[pos])
         THEN MatchFrom(re, k + 1, text, pos + 1)
         ELSE 0

TryStar(re, k, text, pos, n) ==
    LET r == MatchFrom(re, k + 1, text, pos + n)
    IN  IF r # 0 THEN r
        ELSE IF n = 0 THEN 0
        ELSE TryStar(re, k, text, pos, n - 1)

\* regex.findall(buffer): the non-overlapping matches, leftmost first.
RECURSIVE FindAllFrom(_, _, _)
FindAllFrom(re, text, pos) ==
    IF pos > Len(text) THEN <<>>
    ELSE LET e == MatchFrom(re, 1, text, pos)
         IN  IF e = 0 THEN FindAllFrom(re, text, pos + 1)
             ELSE <<SubSeq(text, pos, e - 1)>>
                  \o FindAllFrom(re, text, IF e > pos THEN e ELSE pos + 1)

FindAll(pat, text) == FindAllFrom(Compile(pat, 1), text, 1)

(***************************************************************************)
(* The regular expressions of re.compile(part) with no flags, as           *)
(* DatasetPath.matches compiles them: the same matcher, case kept.         *)
(***************************************************************************)

\* One atom against one character, case kept.
AtomMatchesCase(ch, c) == IF ch = "." THEN c # "\n" ELSE ch = c

RECURSIVE RunCase(_, _, _)
RunCase(ch, text, pos) ==
    IF pos <= Len(text) /\ AtomMatchesCase(ch, text[pos])
    THEN 1 + RunCase(ch, text, pos + 1)
    ELSE 0

RECURSIVE MatchFromCase(_, _, _, _)
RECURSIVE TryStarCase(_, _, _, _, _)
MatchFromCase(re, k, text, pos) ==
    IF k > Len(re) THEN pos
    ELSE IF re[k].star
         THEN TryStarCase(re, k, text, pos, RunCase(re[k].ch, text, pos))
    ELSE IF pos <= Len(text) /\ AtomMatchesCase(re[k].ch, text[pos])
         THEN MatchFromCase(re, k + 1, text, pos + 1)
         ELSE 0

TryStarCase(re, k, text, pos, n) ==
    LET r == MatchFromCase(re, k + 1, text, pos + n)
    IN  IF r # 0 THEN r
        ELSE IF n = 0 THEN 0
        ELSE TryStarCase(re, k, text, pos, n - 1)

\* bool(compile(pat).findall(text)): the pattern matches somewhere in text,
\* the end of text included (an empty match is a match).
Finds(pat, text) ==
    \E pos \in 1..(Len(text) + 1) :
        MatchFromCase(Compile(pat, 1), 1, text, pos) # 0

\* The loop of DatasetPath.matches over the parts from i on: equal parts
\* pass, else L is searched in R, else R in L; an error of compile falls
\* back to equality; both directions seen is no match.
RECURSIVE MatchParts(_, _, _, _, _)
MatchParts(a, b, i, L_to_R, R_to_L) ==
    IF i > 6 THEN ~(L_to_R /\ R_to_L)
    ELSE IF a[i] = b[i] THEN MatchParts(a, b, i + 1, L_to_R, R_to_L)
    ELSE IF RegexError(a[i]) THEN a = b
    ELSE IF Finds(a[i], b[i]) THEN MatchParts(a, b, i + 1, TRUE, R_to_L)
    ELSE IF RegexError(b[i]) THEN a = b
    ELSE IF Finds(b[i], a[i]) THEN MatchParts(a, b, i + 1, L_to_R, TRUE)
    ELSE FALSE

\* str.strip("/")
Strip(str) == RStrip(LStrip(str))

\* ("", *WILDCARD_STR): the empty string and each character of ".*".
BadWilds == <<<<>>, <<WILDCARD_STR[1]>>, <<WILDCARD_STR[2]>>>>

\* The loop of from_str over bad_wild from k on, for one value: a value
\* equal to bad_wild becomes WILDCARD_STR.
RECURSIVE ReplaceBadWilds(_, _)
ReplaceBadWilds(val, k) ==
    IF k > Len(BadWilds) THEN val
    ELSE ReplaceBadWilds(IF val # BadWilds[k] THEN val ELSE WILDCARD_STR, k + 1)

\* DatasetPath.from_str(path): the status and the path built.
from_str(path) ==
    CHOOSE y \in
        { IF Len(args) # 6
          THEN [status |-> "DatasetPathParseError", path |-> <<>>]
          ELSE [status |-> "ok",
                path |-> [i \in 1..6 |-> ReplaceBadWilds(args[i], 1)]]
          : args \in {Split(Strip(path))} } : TRUE

\* DatasetPath.matches(other) for a DatasetPath operand.
matches(a, b) ==
    IF ~has_any_wildcard(a) /\ ~has_any_wildcard(b) THEN a = b
    ELSE MatchParts(a, b, 1, FALSE, FALSE)

(***************************************************************************)
(* DatasetPathCollection / Catalog: a set of DatasetPath                   *)
(***************************************************************************)

\* min(paths) under the dataclass order.
\* An iteration from the largest path down.
MaxPath(S) == CHOOSE p \in S : \A q \in S : q = p \/ PathLess(q, p)

RECURSIVE SortedDescending(_)
SortedDescending(S) ==
    IF S = {} THEN <<>>
    ELSE <<MaxPath(S)>> \o SortedDescending(S \ {MaxPath(S)})

MinPath(S) == CHOOSE p \in S : \A q \in S : q = p \/ PathLess(p, q)

\* DatasetPathCollection.__iter__: sorted(list(self.paths)).
RECURSIVE Sorted(_)
Sorted(S) == IF S = {} THEN <<>> ELSE <<MinPath(S)>> \o Sorted(S \ {MinPath(S)})

\* sorted(list): each element of the list put in its place among the
\* elements before it, equal elements keeping their order.
RECURSIVE Insert(_, _)
Insert(seq, p) ==
    IF seq = <<>> THEN <<p>>
    ELSE IF PathLess(p, seq[1]) THEN <<p>> \o seq
    ELSE <<seq[1]>> \o Insert(Tail(seq), p)

RECURSIVE SortedList(_)
SortedList(list) ==
    IF list = <<>> THEN <<>>
    ELSE Insert(SortedList(SubSeq(list, 1, Len(list) - 1)), list[Len(list)])

\* list(self.paths): the members of the set, each once, in the order the
\* set happens to hold them.
RECURSIVE ListsOf(_)
ListsOf(S) ==
    IF S = {} THEN {<<>>}
    ELSE UNION {{<<p>> \o list : list \in ListsOf(S \ {p})} : p \in S}

\* "\n".join(strs)
RECURSIVE JoinLines(_)
JoinLines(strs) ==
    IF strs = <<>> THEN <<>>
    ELSE IF Len(strs) = 1 THEN strs[1]
    ELSE strs[1] \o <<"\n">> \o JoinLines(Tail(strs))

\* The buffer of resolve_wildcard: "\n".join(str(p) for p in self.paths),
\* listed being the members of the set in the order the set yields them.
Buffer(listed) == JoinLines([i \in 1..Len(listed) |-> PathStr(listed[i])])

\* DatasetPath(*segs): more than six positional arguments is a TypeError,
\* missing ones take the default WILDCARD_STR.
PathOfSegments(segs) ==
    [i \in 1..6 |-> IF i <= Len(segs) THEN segs[i] ELSE WILDCARD_STR]

\* The matched strings of resolve_wildcard, stripped and split.
MatchedSegments(listed, path) ==
    LET found == FindAll(PathStr(path), Buffer(listed))
    IN  {Split(RStrip(LStrip(found[i]))) : i \in 1..Len(found)}

\* resolve_wildcard below its guard, for one iteration order of the set.
resolve_wildcard_listed(listed, path) ==
    IF RegexError(PathStr(path)) THEN [status |-> "re.error", paths |-> {}]
    ELSE LET segs == MatchedSegments(listed, path)
         IN  IF \E s \in segs : Len(s) > 6
             THEN [status |-> "TypeError", paths |-> {}]
             ELSE [status |-> "ok", paths |-> {PathOfSegments(s) : s \in segs}]

\* The outcomes of resolve_wildcard below its guard over every order in
\* which the set can yield its members.
resolve_wildcard_outcomes(paths, path) ==
    {resolve_wildcard_listed(listed, path) : listed \in ListsOf(paths)}

\* A resolve_wildcard without the guard against wildcards in the collection:
\* the one outcome that every iteration order of the set gives. (The CHOOSE
\* has no value, and evaluation stops, if two orders give different outcomes.)
resolve_wildcard_unguarded(paths, path) ==
    CHOOSE r \in UNION {{x \in out : out = {x}} :
                           out \in {resolve_wildcard_outcomes(paths, path)}} :
        TRUE

\* DatasetPathCollection.resolve_wildcard (Catalog.resolve_wildcard and
\* Catalog.find call it unchanged): [status, paths].
resolve_wildcard_scan(paths, path) ==
    IF (\E p \in paths : has_any_wildcard(p)) /\ has_wildcard(path)
    THEN [status |-> "WildcardError", paths |-> {}]
    ELSE resolve_wildcard_unguarded(paths, path)

\* A collapse that leaves every date block in place.
KeepDates(paths) == paths

\* DatasetPathCollection.collapse_dates
collapse_dates(paths) == {drop_date(p) : p \in paths}

\* DatasetPathCollection(paths=new): the type and the set held.
Collection(new) == [type |-> "DatasetPathCollection", paths |-> new]

\* set(__other) for a collection: the set of what its __iter__ yields.
SetOf(other) == {Sorted(other)[i] : i \in 1..Len(Sorted(other))}

\* An __or__ that intersects.
OrAsAnd(self, other) == Collection(self \cap SetOf(other))

\* DatasetPathCollection.__or__, __and__, __sub__ and __add__.
CollOr(self, other) == Collection(self \cup SetOf(other))

CollAnd(self, other) == Collection(self \cap SetOf(other))

CollSub(self, other) == Collection(self \ SetOf(other))

CollAdd(self, other) == CollOr(self, other)

\* DatasetPathCollection.__contains__ for a DatasetPath: some member is the
\* object itself or equal to it, field by field (DatasetPath.__eq__).
contains(self, other) == \E p \in self : other = p

\* DatasetPathCollection.__rand__ and __rsub__: the reflected operators,
\* called with the collection as self when the left operand is a plain set;
\* each calls the forward operator of self.
CollRAnd(self, other) == CollAnd(self, other)

CollRSub(self, other) == CollSub(self, other)

\* DatasetPathCollection.intersection, union and difference: the set
\* self.paths is the left operand of & or -, the collection the right one,
\* so that the set's operator gives way to the collection's reflected one.
intersection(self, other) == CollRAnd(other, self)

union(self, other) == CollRAnd(other, self)

difference(self, other) == CollRSub(other, self)

(***************************************************************************)
(* The inputs of the model: parts, stored paths, request paths, series     *)
(***************************************************************************)

sA == <<"A">>
sB == <<"B">>
sBA == <<"B", "A">>
sBW == <<"B", ".", "*">>
sNW == <<"N", ".", "*">>
sCW == <<"C", ".", "*">>
sC == <<"C">>
sN == <<"N">>
s1 == <<"1">>
s2 == <<"2">>
sDAY == <<"D", "A", "Y">>
sF == <<"F">>
sW == WILDCARD_STR

\* The records of the DSS file when the model starts: one series in two date
\* blocks, and a second series.
InitialPaths ==
    { DP(sA, sB, sC, s1, sDAY, sF),
      DP(sA, sB, sC, s2, sDAY, sF),
      DP(sA, sBA, sC, s1, sDAY, sF) }

\* Destination paths given to write_rts: concrete ones (a new series, an
\* existing record, a D wildcard) and one wildcarded in each of a, b, c, e, f.
ConcreteWritePaths ==
    { DP(sA, sN, sC, sW, sDAY, sF),
      DP(sA, sB, sC, s1, sDAY, sF) }

WildcardWritePaths ==
    { DP(sW, sN, sC, s1, sDAY, sF),
      DP(sA, sNW, sC, s1, sDAY, sF),
      DP(sA, sN, sW, s1, sDAY, sF),
      DP(sA, sN, sC, s1, sW, sF),
      DP(sA, sN, sC, s1, sDAY, sW) }

WritePaths == ConcreteWritePaths \cup WildcardWritePaths

\* Paths given to read_rts and resolve_wildcard.
ConcreteReadPaths ==
    { DP(sA, sB, sC, s1, sDAY, sF),
      DP(sA, sB, sC, sW, sDAY, sF),
      DP(sA, sN, sC, s1, sDAY, sF) }

\* Wildcarded ones: two date blocks of one series, two series, and a series
\* that exists only once it has been written.
WildcardReadPaths ==
    { DP(sA, sB, sCW, sW, sDAY, sF),
      DP(sA, sBW, sC, s1, sDAY, sF),
      DP(sA, sNW, sC, sW, sDAY, sF) }

ReadPaths == ConcreteReadPaths \cup WildcardReadPaths

\* The arguments of read_rts: <<path, expect_single, drop_date>>. A concrete
\* path is read with the defaults of the two flags, which the code looks at
\* for a wildcarded path only.
ReadArgs ==
    {<<p, TRUE, TRUE>> : p \in ConcreteReadPaths}
    \cup (WildcardReadPaths \X BOOLEAN \X BOOLEAN)

\* A RegularTimeseries is [path, data]; data is a set of <<date block, value>>:
\* the values of the series, grouped by the date block their dates fall in.
WriteSeries ==
    { [path |-> DP(sA, sN, sC, sW, sDAY, sF), data |-> {<<s1, 2>>}] }

\* The arguments given to read_multiple_rts: a DatasetPath or a
\* DatasetPathCollection.
IterArgs ==
    { [kind |-> "path", paths |-> {DP(sA, sW, sC, sW, sDAY, sF)}],
      [kind |-> "path", paths |-> {DP(sA, sB, sC, s1, sDAY, sF)}],
      [kind |-> "collection", paths |-> InitialPaths],
      [kind |-> "collection",
       paths |-> {DP(sA, sBW, sC, s1, sDAY, sF), DP(sA, sN, sC, s1, sDAY, sF)}],
      [kind |-> "collection",
       paths |-> {DP(sA, sBW, sC, s1, sDAY, sF), DP(sA, sB, sCW, sW, sDAY, sF)}] }

\* The members, collections and paths of resolve_wildcard taken on its own.
sa == <<"a">>
sBdot == <<"B", ".">>
sEmpty == <<>>
sBWA == <<"B", ".", "*", "A">>

\* Concrete members: two date blocks of a series, a second series, a path
\* that differs from the first in the case of a letter, and a path with an
\* empty F part (Catalog.from_frame builds DatasetPath(*row) from the parts
\* as the backend lists them).
TestMembers ==
    { DP(sA, sB, sC, s1, sDAY, sF),
      DP(sA, sB, sC, s2, sDAY, sF),
      DP(sA, sBA, sC, s1, sDAY, sF),
      DP(sa, sB, sC, s1, sDAY, sF),
      DP(sA, sB, sC, s1, sDAY, sEmpty) }

\* The collections resolved against: catalogs of concrete paths, their
\* collapse_dates() results, and a collection with one wildcarded member.
TestCollections ==
    (SUBSET TestMembers)
    \cup {collapse_dates(c) : c \in (SUBSET TestMembers) \ {{}}}
    \cup {{DP(sA, sB, sC, s1, sDAY, sF), DP(sA, sNW, sC, s1, sDAY, sF)}}

\* The paths resolved: members, a path no collection holds, a path with a
\* "." in a part, a D wildcard, and wildcards outside D.
TestPatterns ==
    { DP(sA, sB, sC, s1, sDAY, sF),
      DP(sa, sB, sC, s1, sDAY, sF),
      DP(sA, sN, sC, s1, sDAY, sF),
      DP(sA, sBdot, sC, s1, sDAY, sF),
      DP(sA, sB, sC, sW, sDAY, sF),
      DP(sA, sBW, sC, s1, sDAY, sF),
      DP(sW, sB, sC, sW, sDAY, sF),
      DP(sA, sBWA, sC, sW, sDAY, sF),
      DP(sW, sW, sW, sW, sW, sW) }

\* Bounds of the model.
MaxScopes == 2
MaxUnmatched == 1

\* Every record the file of the model can come to hold.
AllRecords ==
    InitialPaths \cup
    {DP(p[1], p[2], p[3], x[1], p[5], p[6]) :
        p \in ConcreteWritePaths, x \in UNION {r.data : r \in WriteSeries}}

\* The catalogs the engine can read and the paths it can be asked to resolve.
KnownCatalogs == {c \in SUBSET AllRecords : InitialPaths \subseteq c}

KnownPatterns ==
    ReadPaths \cup AllRecords \cup {drop_date(p) : p \in AllRecords}
              \cup UNION {a.paths : a \in IterArgs}

\* resolve_wildcard over the catalogs and paths above, computed once.
ResolveTable ==
    CHOOSE table \in {[c \in KnownCatalogs, p \in KnownPatterns |->
                          resolve_wildcard_scan(c, p)]} : table = table

\* resolve_wildcard over the collections and paths taken on their own,
\* computed once.
ResolveTestTable ==
    CHOOSE table \in {[c \in TestCollections, p \in TestPatterns |->
                          resolve_wildcard_scan(c, p)]} : table = table

\* DatasetPathCollection.resolve_wildcard, looked up when already computed.
resolve_wildcard(paths, path) ==
    IF paths \in KnownCatalogs /\ path \in KnownPatterns
    THEN ResolveTable[paths, path]
    ELSE IF paths \in TestCollections /\ path \in TestPatterns
    THEN ResolveTestTable[paths, path]
    ELSE resolve_wildcard_scan(paths, path)

(***************************************************************************)
(* State                                                                   *)
(***************************************************************************)

VARIABLES
    engine,    \* the engine class bound by DSS.__init__: "pyhecdss" or "pydsstools"
    opened,    \* DSS._opened, the nesting counter
    is_open,   \* engine._is_open
    object,    \* engine._object: "None", "open" or "closed" (a closed handle)
    catalog,   \* engine._catalog: None, or <<paths>> for a cached Catalog
    file,      \* the DSS file: stored path |-> value
    scopes,    \* the number of with-scopes the caller is inside
    unmatched, \* the number of __exit__ calls made without a matching __enter__
    gen,       \* the generator returned by the latest read_multiple_rts call
    last       \* the latest call: its arguments, its outcome, the engine calls it made

vars == <<engine, opened, is_open, object, catalog, file, scopes, unmatched, gen, last>>

\* engine._catalog is None
None == <<>>

\* One engine-level call, as logged in last.calls.
Call(f, p) == [f |-> f, path |-> p]
NoPath == <<>>

\* The value v, computed once, handed to the rest of the handler K: the
\* statement `r = v` followed by the statements that use r.
Then(v, K(_)) == CHOOSE y \in {K(r) : r \in {v}} : TRUE

\* The outcome of a piece of a handler: its status ("ok" or the exception
\* raised), its value, the catalog cache after it, the engine calls it made.
Outcome(status, value, cat, calls) ==
    [status |-> status, value |-> value, cat |-> cat, calls |-> calls]

(***************************************************************************)
(* The engines (PyHecDssEngine, PyDssToolsEngine over EngineABC)           *)
(***************************************************************************)

\* A read_catalog without the must_be_open guard.
EngineReadCatalogUnguarded(cat) ==
    IF \E p \in DOMAIN file : has_wildcard(p)
    THEN Outcome(IF engine = "pyhecdss" THEN "WildcardError" ELSE "ValueError",
                 {}, cat, <<Call("read_catalog", NoPath)>>)
    ELSE Outcome("ok", DOMAIN file, <<DOMAIN file>>,
                 <<Call("read_catalog", NoPath)>>)

\* engine.read_catalog(), under @must_be_open: lists the paths of the file,
\* builds the Catalog and caches it in _catalog.
EngineReadCatalog(cat) ==
    IF ~is_open THEN Outcome("ClosedDSSError", {}, cat, <<>>)
    ELSE EngineReadCatalogUnguarded(cat)

\* A catalog property that re-reads the file on every access.
EngineCatalogUncached(cat) ==
    Then(EngineReadCatalog(cat),
         LAMBDA r : [r EXCEPT !.calls = <<Call("catalog", NoPath)>> \o r.calls])

\* EngineABC.catalog (property): reads the catalog when none is cached.
EngineCatalog(cat) ==
    IF cat = None
    THEN EngineCatalogUncached(cat)
    ELSE Outcome("ok", cat[1], cat, <<Call("catalog", NoPath)>>)

\* The date blocks of one series that the backend holds: the records equal
\* to path in a, b, c, e, f.
BlocksOf(path) ==
    {q \in DOMAIN file : drop_date(q) = drop_date(path)}

\* The data of a set of records.
DataOf(records) == {<<q[4], file[q]>> : q \in records}

\* PyHecDssEngine.read_rts below its guards: a D wildcard is expanded with
\* the cached catalog and the blocks are read one by one and concatenated.
PyHecDssRead(path, cat) ==
    IF path[4] = WILDCARD_STR
    THEN Then(EngineCatalog(cat), LAMBDA c :
         Then(resolve_wildcard(c.value, path), LAMBDA r :
         Then(<<Call("read_rts", path)>> \o c.calls, LAMBDA calls :
             IF c.status # "ok" THEN Outcome(c.status, {}, c.cat, calls)
             ELSE IF r.status # "ok" THEN Outcome(r.status, {}, c.cat, calls)
             ELSE IF r.paths = {} THEN Outcome("ValueError", {}, c.cat, calls)
             ELSE IF ~(r.paths \subseteq DOMAIN file)
                  THEN Outcome("BackendError", {}, c.cat, calls)
             ELSE Outcome("ok", [path |-> path, data |-> DataOf(r.paths)],
                          c.cat, calls))))
    ELSE IF path \in DOMAIN file
         THEN Outcome("ok", [path |-> path, data |-> DataOf({path})], cat,
                      <<Call("read_rts", path)>>)
         ELSE Outcome("BackendError", {}, cat, <<Call("read_rts", path)>>)

\* PyDssToolsEngine.read_rts below its guards: a D wildcard is passed to the
\* backend as "*", which reads every block of the series.
PyDssToolsRead(path, cat) ==
    LET records == IF path[4] = WILDCARD_STR THEN BlocksOf(path)
                   ELSE {path} \cap DOMAIN file
    IN  IF records = {}
        THEN Outcome("DatasetNotFound", {}, cat, <<Call("read_rts", path)>>)
        ELSE Outcome("ok", [path |-> path, data |-> DataOf(records)], cat,
                     <<Call("read_rts", path)>>)

\* An engine read_rts without the must_be_open guard.
EngineReadRtsUnguarded(path, cat) ==
    IF has_wildcard(path)
    THEN Outcome(IF engine = "pyhecdss" THEN "ValueError" ELSE "WildcardError",
                 {}, cat, <<Call("read_rts", path)>>)
    ELSE IF engine = "pyhecdss" THEN PyHecDssRead(path, cat)
    ELSE PyDssToolsRead(path, cat)

\* engine.read_rts(path), under @must_be_open.
EngineReadRts(path, cat) ==
    IF ~is_open THEN Outcome("ClosedDSSError", {}, cat, <<>>)
    ELSE EngineReadRtsUnguarded(path, cat)

\* The file after the backend stored rts under a, b, c, e, f of path: the D
\* part of path is dropped and every date block of the data is stored.
Stored(path, rts) ==
    LET recs == {DP(path[1], path[2], path[3], x[1], path[5], path[6]) :
                     x \in rts.data}
    IN  [q \in DOMAIN file \cup recs |->
            IF q \in recs
            THEN (CHOOSE x \in rts.data : x[1] = q[4])[2]
            ELSE file[q]]

(***************************************************************************)
(* DSS: the pieces of its methods, as functions of the state               *)
(***************************************************************************)

\* A resolve_wildcard that asks the catalog for every path: engine.catalog
\* is read for the test `is None`, which reads the file when nothing is
\* cached, and read again for the collection that resolves the path.
DSSResolveAlways(path, drop, cat) ==
    Then(EngineCatalog(cat), LAMBDA c :
        IF c.status # "ok" THEN Outcome(c.status, {}, c.cat, c.calls)
        ELSE Then(EngineCatalog(c.cat), LAMBDA d :
             Then(c.calls \o d.calls, LAMBDA calls :
                 IF d.status # "ok" THEN Outcome(d.status, {}, d.cat, calls)
                 ELSE Then(resolve_wildcard(d.value, path), LAMBDA r :
                      IF r.status # "ok"
                      THEN Outcome(r.status, {}, d.cat, calls)
                      ELSE Outcome("ok",
                                   IF drop THEN collapse_dates(r.paths)
                                   ELSE r.paths,
                                   d.cat, calls)))))

\* DSS.resolve_wildcard(path, drop_date). The second test of the code,
\* `if self.engine.catalog is None`, reads the property, which has already
\* read the catalog or raised.
DSSResolve(path, drop, cat) ==
    IF ~has_wildcard(path) THEN Outcome("ok", {path}, cat, <<>>)
    ELSE DSSResolveAlways(path, drop, cat)

\* A loop that expands the first member only.
ResolveFirstOnly(todo, acc, cat) ==
    IF todo = <<>> THEN Outcome("ok", acc, cat, <<>>)
    ELSE DSSResolve(todo[1], FALSE, cat)

\* `resolved = resolved | self.resolve_wildcard(p)` over the members of a
\* collection, in the collection's order.
RECURSIVE ResolveEach(_, _, _)
ResolveEach(todo, acc, cat) ==
    IF todo = <<>> THEN Outcome("ok", acc, cat, <<>>)
    ELSE Then(DSSResolve(todo[1], FALSE, cat), LAMBDA r :
             IF r.status # "ok" THEN r
             ELSE Then(ResolveEach(Tail(todo), acc \cup r.value, r.cat),
                       LAMBDA rest : [rest EXCEPT !.calls = r.calls \o rest.calls]))

\* DSS.read_multiple_rts before its loop (the engines have no
\* read_multiple_rts): the collection of paths the loop will read.
IterPaths(arg, drop, cat) ==
    Then(IF arg.kind = "path"
         THEN LET p == CHOOSE p \in arg.paths : TRUE
              IN  IF has_wildcard(p) THEN DSSResolve(p, FALSE, cat)
                  ELSE Outcome("ok", {p}, cat, <<>>)
         ELSE IF \E p \in arg.paths : has_wildcard(p)
              THEN ResolveEach(Sorted(arg.paths), {}, cat)
              ELSE Outcome("ok", arg.paths, cat, <<>>),
         LAMBDA r :
             IF r.status = "ok" /\ drop
             THEN [r EXCEPT !.value = collapse_dates(r.value)]
             ELSE r)

RECURSIVE DSSReadRts(_, _, _, _)
RECURSIVE ReadEach(_, _, _)

\* `for p in paths: yield self.read_rts(p)` run to its end, as tuple() runs it.
ReadEach(todo, acc, cat) ==
    IF todo = <<>> THEN Outcome("ok", acc, cat, <<>>)
    ELSE Then(DSSReadRts(todo[1], TRUE, TRUE, cat), LAMBDA r :
             IF r.status # "ok" THEN r
             ELSE Then(ReadEach(Tail(todo), Append(acc, r.value), r.cat),
                       LAMBDA rest : [rest EXCEPT !.calls = r.calls \o rest.calls]))

\* tuple(self.read_multiple_rts(path, drop_date))
ReadAll(path, drop, cat) ==
    Then(IterPaths([kind |-> "path", paths |-> {path}], drop, cat), LAMBDA c :
        IF c.status # "ok" THEN c
        ELSE Then(ReadEach(Sorted(c.value), <<>>, c.cat),
                  LAMBDA r : [r EXCEPT !.calls = c.calls \o r.calls]))

\* A read_rts that takes the first series of a wildcard expansion.
DSSReadRtsFirst(path, expect_single, drop, cat) ==
    IF has_wildcard(path)
    THEN IF expect_single
         THEN Then(ReadAll(path, drop, cat), LAMBDA r :
                  IF r.status # "ok" THEN r
                  ELSE IF Len(r.value) = 0
                       THEN Outcome("UnexpectedDSSReturn", {}, r.cat, r.calls)
                  ELSE [r EXCEPT !.value = r.value[1]])
         ELSE Outcome("WildcardError", {}, cat, <<>>)
    ELSE EngineReadRts(path, cat)

\* DSS.read_rts(path, expect_single, drop_date)
DSSReadRts(path, expect_single, drop, cat) ==
    IF has_wildcard(path)
    THEN IF expect_single
         THEN Then(ReadAll(path, drop, cat), LAMBDA r :
                  IF r.status # "ok" THEN r
                  ELSE IF Len(r.value) # 1
                       THEN Outcome("UnexpectedDSSReturn", {}, r.cat, r.calls)
                  ELSE [r EXCEPT !.value = r.value[1]])
         ELSE Outcome("WildcardError", {}, cat, <<>>)
    ELSE EngineReadRts(path, cat)

(***************************************************************************)
(* The state machine: one action per call on the DSS object                *)
(***************************************************************************)

Engines == {"pyhecdss", "pydsstools"}

NoGen ==
    [st |-> "none", arg |-> [kind |-> "none", paths |-> {}], drop |-> FALSE,
     resolved |-> <<>>, todo |-> <<>>, reads |-> <<>>, taken |-> 0]

\* The record of one call.
Did(op, path, flag, drop, status, value, calls) ==
    [op |-> op, path |-> path, flag |-> flag, drop |-> drop,
     status |-> status, value |-> value, calls |-> calls]

Init ==
    /\ engine \in Engines
    /\ opened = 0
    /\ is_open = FALSE
    /\ object = "None"
    /\ catalog = None
    /\ file = [p \in InitialPaths |-> 1]
    /\ scopes = 0
    /\ unmatched = 0
    /\ gen = NoGen
    /\ last = Did("init", NoPath, FALSE, FALSE, "ok", {}, <<>>)

\* An __enter__ that opens the engine at every depth.
EnterOpensAlways(n) == TRUE

\* The test of DSS.__enter__ on the counter: the engine is opened when the
\* counter is not positive.
EnterOpens(n) == n <= 0

\* DSS.__enter__: engine.open() when the counter is not positive.
Enter ==
    /\ scopes < MaxScopes
    /\ IF EnterOpens(opened)
       THEN /\ object' = "open"
            /\ is_open' = TRUE
            /\ last' = Did("enter", NoPath, FALSE, FALSE, "ok", {},
                           <<Call("open", NoPath)>>)
       ELSE /\ UNCHANGED <<object, is_open>>
            /\ last' = Did("enter", NoPath, FALSE, FALSE, "ok", {}, <<>>)
    /\ opened' = opened + 1
    /\ scopes' = scopes + 1
    /\ UNCHANGED <<engine, catalog, file, unmatched, gen>>

\* DSS.__exit__(exc_type, exc_inst, traceback): called at the end of a
\* with-scope, exc telling whether an exception is leaving the scope. The
\* counter is decremented first; engine.close() is under @must_be_open and
\* raises on a closed engine, before the counter is reset.
Exit ==
    \E exc \in BOOLEAN :
        /\ scopes > 0 \/ unmatched < MaxUnmatched
        /\ IF opened - 1 <= 0
           THEN IF is_open
                THEN /\ object' = "closed"
                     /\ is_open' = FALSE
                     /\ opened' = 0
                     /\ last' = Did("exit", NoPath, exc, FALSE, "ok", {},
                                    <<Call("close", NoPath)>>)
                ELSE /\ opened' = opened - 1
                     /\ UNCHANGED <<object, is_open>>
                     /\ last' = Did("exit", NoPath, exc, FALSE,
                                    "ClosedDSSError", {}, <<>>)
           ELSE /\ opened' = opened - 1
                /\ UNCHANGED <<object, is_open>>
                /\ last' = Did("exit", NoPath, exc, FALSE, "ok", {}, <<>>)
        /\ scopes' = IF scopes > 0 THEN scopes - 1 ELSE 0
        /\ unmatched' = IF scopes > 0 THEN unmatched ELSE unmatched + 1
        /\ UNCHANGED <<engine, catalog, file, gen>>

\* DSS.read_catalog(drop_date)
ReadCatalog ==
    \E drop \in BOOLEAN :
        \E r \in {EngineReadCatalog(catalog)} :
            /\ catalog' = r.cat
            /\ last' = Did("read_catalog", NoPath, FALSE, drop, r.status,
                           IF drop THEN collapse_dates(r.value) ELSE r.value,
                           r.calls)
            /\ UNCHANGED <<engine, opened, is_open, object, file, scopes,
                           unmatched, gen>>

\* DSS.catalog (property): the catalog property of the engine, which reads
\* and caches the catalog when none is cached.
CatalogProperty ==
    \E r \in {EngineCatalog(catalog)} :
        /\ catalog' = r.cat
        /\ last' = Did("catalog", NoPath, FALSE, FALSE, r.status, r.value,
                       r.calls)
        /\ UNCHANGED <<engine, opened, is_open, object, file, scopes,
                       unmatched, gen>>

\* DSS.read_rts(path, expect_single, drop_date)
ReadRts ==
    \E arg \in ReadArgs :
        \E r \in {DSSReadRts(arg[1], arg[2], arg[3], catalog)} :
            /\ catalog' = r.cat
            /\ last' = Did("read_rts", arg[1], arg[2], arg[3], r.status,
                           r.value, r.calls)
            /\ UNCHANGED <<engine, opened, is_open, object, file, scopes,
                           unmatched, gen>>

\* DSS.resolve_wildcard(path, drop_date)
ResolveWildcard ==
    \E path \in ReadPaths, drop \in BOOLEAN :
        \E r \in {DSSResolve(path, drop, catalog)} :
            /\ catalog' = r.cat
            /\ last' = Did("resolve_wildcard", path, FALSE, drop, r.status,
                           r.value, r.calls)
            /\ UNCHANGED <<engine, opened, is_open, object, file, scopes,
                           unmatched, gen>>

\* The destinations given to to_plaintext: a file, a directory that holds
\* files, an empty directory, a path that does not exist yet.
PlaintextDsts == {"file", "full directory", "empty directory", "missing"}

\* The filters given to to_plaintext: None or a DatasetPath.
PlaintextFilters ==
    { [kind |-> "None", paths |-> {}],
      [kind |-> "path", paths |-> {DP(sA, sB, sC, sW, sDAY, sF)}] }

\* `for rts in self.read_multiple_rts(filter)` of to_plaintext, for the
\* collapsed catalog of an open engine: the catalog holds no wildcard, so
\* nothing is resolved and each read_rts(p) goes to the engine.
RECURSIVE PlaintextReads(_, _, _)
PlaintextReads(todo, acc, cat) ==
    IF todo = <<>> THEN Outcome("ok", acc, cat, <<>>)
    ELSE Then(EngineReadRtsUnguarded(todo[1], cat), LAMBDA r :
             IF r.status # "ok" THEN r
             ELSE Then(PlaintextReads(Tail(todo), Append(acc, r.value), r.cat),
                       LAMBDA rest : [rest EXCEPT !.calls = r.calls \o rest.calls]))

\* The body of `with self:` in to_plaintext, open telling whether the engine
\* is open inside the scope: a DatasetPath filter is passed to set(), which
\* yields its parts, and DatasetPathCollection refuses them; with no filter
\* the catalog is read with drop_date=True and every series of it is read.
PlaintextBody(filter, open, cat) ==
    IF filter.kind = "path" THEN Outcome("ValueError", <<>>, cat, <<>>)
    ELSE IF ~open THEN Outcome("ClosedDSSError", <<>>, cat, <<>>)
    ELSE Then(EngineReadCatalogUnguarded(cat), LAMBDA c :
         IF c.status # "ok" THEN Outcome(c.status, <<>>, c.cat, c.calls)
         ELSE Then(PlaintextReads(Sorted(collapse_dates(c.value)), <<>>, c.cat),
                   LAMBDA r :
              IF r.status # "ok"
              THEN Outcome(r.status, <<>>, r.cat, c.calls \o r.calls)
              ELSE Outcome("ok", r.value, r.cat, c.calls \o r.calls)))

\* DSS.to_plaintext(dst, filter): the destination is tested, then the scope
\* `with self:` is entered, the body runs and the scope is left, and the
\* frames read are written, one file for each E part; no frame at all
\* raises EmptyCollectionError.
ToPlaintext ==
    \E dst \in PlaintextDsts, filter \in PlaintextFilters :
        IF dst \in {"file", "full directory"}
        THEN /\ last' = Did("to_plaintext", NoPath, FALSE, FALSE, "ValueError",
                            [dst |-> dst, filter |-> filter, frames |-> <<>>],
                            <<>>)
             /\ UNCHANGED <<engine, opened, is_open, object, catalog, file,
                            scopes, unmatched, gen>>
        ELSE \E entered \in {EnterOpens(opened)} :
             \E open \in {entered \/ is_open} :
             \E r \in {PlaintextBody(filter, open, catalog)} :
             \E closes \in {opened + 1 - 1 <= 0} :
                 /\ catalog' = r.cat
                 /\ opened' = IF closes /\ open THEN 0 ELSE opened + 1 - 1
                 /\ is_open' = IF closes /\ open THEN FALSE ELSE open
                 /\ object' = IF closes /\ open THEN "closed"
                               ELSE IF entered THEN "open" ELSE object
                 /\ last' = Did("to_plaintext", NoPath, FALSE, FALSE,
                                IF closes /\ ~open THEN "ClosedDSSError"
                                ELSE IF r.status = "ok" /\ r.value = <<>>
                                THEN "EmptyCollectionError"
                                ELSE r.status,
                                [dst |-> dst, filter |-> filter,
                                 frames |-> r.value],
                                (IF entered THEN <<Call("open", NoPath)>>
                                 ELSE <<>>)
                                    \o r.calls
                                    \o (IF closes /\ open
                                        THEN <<Call("close", NoPath)>>
                                        ELSE <<>>))
                 /\ UNCHANGED <<engine, file, scopes, unmatched, gen>>

\* A write_rts that hands every destination to the engine.
DSSWriteUnchecked(path) == "engine"

\* DSS.write_rts before the engine call: a wildcarded destination is
\* rejected, any other goes to the engine.
DSSWriteCheck(path) == IF has_wildcard(path) THEN "WildcardError" ELSE "engine"

\* DSS.write_rts(path, rts). PyDssToolsEngine defines no write_rts and
\* inherits EngineABC's, which raises. PyHecDssEngine.write_rts is not under
\* @must_be_open: with no handle (_object is None) the attribute lookup
\* raises; a closed handle is passed to the backend, which stores the data
\* or fails.
WriteRts ==
    \E path \in WritePaths, rts \in WriteSeries :
        /\ \/ /\ DSSWriteCheck(path) = "WildcardError"
              /\ last' = Did("write_rts", path, FALSE, FALSE, "WildcardError",
                             rts, <<>>)
              /\ file' = file
           \/ /\ DSSWriteCheck(path) = "engine"
              /\ engine = "pydsstools"
              /\ last' = Did("write_rts", path, FALSE, FALSE,
                             "NotImplementedError", rts,
                             <<Call("write_rts", path)>>)
              /\ file' = file
           \/ /\ DSSWriteCheck(path) = "engine"
              /\ engine = "pyhecdss"
              /\ object = "None"
              /\ last' = Did("write_rts", path, FALSE, FALSE, "AttributeError",
                             rts, <<Call("write_rts", path)>>)
              /\ file' = file
           \/ /\ DSSWriteCheck(path) = "engine"
              /\ engine = "pyhecdss"
              /\ object # "None"
              /\ last' = Did("write_rts", path, FALSE, FALSE, "ok", rts,
                             <<Call("write_rts", path)>>)
              /\ file' = Stored(path, rts)
           \/ /\ DSSWriteCheck(path) = "engine"
              /\ engine = "pyhecdss"
              /\ object = "closed"
              /\ last' = Did("write_rts", path, FALSE, FALSE, "BackendError",
                             rts, <<Call("write_rts", path)>>)
              /\ file' = file
        /\ UNCHANGED <<engine, opened, is_open, object, catalog, scopes,
                       unmatched, gen>>

\* dss.read_multiple_rts(paths, drop_date): the call creates the generator
\* and runs none of its body.
IterCreate ==
    \E arg \in IterArgs, drop \in BOOLEAN :
        /\ gen.st \in {"none", "done", "closed"}
        /\ gen' = [NoGen EXCEPT !.st = "created", !.arg = arg, !.drop = drop]
        /\ last' = Did("read_multiple_rts", NoPath, FALSE, drop, "ok", {}, <<>>)
        /\ UNCHANGED <<engine, opened, is_open, object, catalog, file, scopes,
                       unmatched>>

\* The paths of the engine read_rts calls in a log of calls.
ReadsIn(calls) ==
    LET rs == SelectSeq(calls, LAMBDA c : c.f = "read_rts")
    IN  [i \in 1..Len(rs) |-> rs[i].path]

\* One step of the loop of read_multiple_rts over the paths still to read.
IterStep(todo, cat, calls, resolved) ==
    IF todo = <<>>
    THEN /\ gen' = [gen EXCEPT !.st = "done", !.resolved = resolved,
                               !.todo = <<>>]
         /\ catalog' = cat
         /\ last' = Did("next", NoPath, FALSE, FALSE, "StopIteration", {}, calls)
    ELSE \E r \in {DSSReadRts(todo[1], TRUE, TRUE, cat)} :
             /\ gen' = [gen EXCEPT
                          !.st = IF r.status = "ok" THEN "running" ELSE "done",
                          !.resolved = resolved,
                          !.todo = Tail(todo),
                          !.reads = gen.reads \o ReadsIn(r.calls),
                          !.taken = IF r.status = "ok" THEN gen.taken + 1
                                    ELSE gen.taken]
             /\ catalog' = r.cat
             /\ last' = Did("next", todo[1], FALSE, FALSE, r.status, r.value,
                            calls \o r.calls)

\* next(generator): the first advance runs the body up to the first yield
\* (the paths are resolved, collapsed and sorted, the first one is read);
\* a later advance reads the next path.
IterNext ==
    /\ gen.st \in {"created", "running"}
    /\ IF gen.st = "created"
       THEN \E c \in {IterPaths(gen.arg, gen.drop, catalog)} :
                IF c.status # "ok"
                THEN /\ gen' = [gen EXCEPT !.st = "done"]
                     /\ catalog' = c.cat
                     /\ last' = Did("next", NoPath, FALSE, FALSE, c.status, {},
                                    c.calls)
                ELSE \E srt \in {Sorted(c.value)} :
                         IterStep(srt, c.cat, c.calls, srt)
       ELSE IterStep(gen.todo, catalog, <<>>, gen.resolved)
    /\ UNCHANGED <<engine, opened, is_open, object, file, scopes, unmatched>>

\* The consumer stops iterating: the generator is closed or dropped.
IterClose ==
    /\ gen.st \in {"created", "running"}
    /\ gen' = [gen EXCEPT !.st = "closed"]
    /\ last' = Did("close", NoPath, FALSE, FALSE, "ok", {}, <<>>)
    /\ UNCHANGED <<engine, opened, is_open, object, catalog, file, scopes,
                   unmatched>>

\* The calls on a DSS object other than read_multiple_rts.
Next ==
    \/ Enter
    \/ Exit
    \/ ReadCatalog
    \/ CatalogProperty
    \/ ToPlaintext
    \/ ReadRts
    \/ ResolveWildcard
    \/ WriteRts

\* The calls around a read_multiple_rts generator and its consumer.
NextIter ==
    \/ Enter
    \/ Exit
    \/ CatalogProperty
    \/ IterCreate
    \/ IterNext
    \/ IterClose

Spec == Init /\ [][Next]_vars

(***************************************************************************)
(* DatasetPathCollection.resolve_wildcard on its own: a collection is      *)
(* drawn, then asked to resolve a path                                     *)
(***************************************************************************)

InitResolve ==
    /\ engine = "pydsstools"
    /\ opened = 0
    /\ is_open = FALSE
    /\ object = "None"
    /\ catalog \in {<<c>> : c \in TestCollections}
    /\ file = [p \in InitialPaths |-> 1]
    /\ scopes = 0
    /\ unmatched = 0
    /\ gen = NoGen
    /\ last = Did("init", NoPath, FALSE, FALSE, "ok", {}, <<>>)

\* Catalog.resolve_wildcard(path) / DatasetPathCollection.resolve_wildcard(path)
CollectionResolve ==
    \E path \in TestPatterns :
        \E r \in {resolve_wildcard(catalog[1], path)} :
            /\ last' = Did("collection.resolve_wildcard", path, FALSE, FALSE,
                           r.status, r.paths, <<>>)
            /\ UNCHANGED <<engine, opened, is_open, object, catalog, file,
                           scopes, unmatched, gen>>

\* DatasetPathCollection.collapse_dates()
CollectionCollapse ==
    /\ last' = Did("collection.collapse_dates", NoPath, FALSE, FALSE, "ok",
                   collapse_dates(catalog[1]), <<>>)
    /\ UNCHANGED <<engine, opened, is_open, object, catalog, file, scopes,
                   unmatched, gen>>

\* list(iter(collection)): DatasetPathCollection.__iter__ run to its end;
\* the record holds the order the set supplied and the order yielded.
CollectionIter ==
    \E list \in ListsOf(catalog[1]) :
        /\ last' = Did("collection.iter", NoPath, FALSE, FALSE, "ok",
                       [supplied |-> list, yielded |-> SortedList(list)], <<>>)
        /\ UNCHANGED <<engine, opened, is_open, object, catalog, file,
                       scopes, unmatched, gen>>

\* X | Y, X + Y, X & Y and X - Y for two collections, X the one at hand.
Operators == {"|", "+", "&", "-"}

\* The operands: every collection of two date blocks of a series, a
\* second series and the first series with its dates collapsed.
OperandCollections ==
    SUBSET { DP(sA, sB, sC, s1, sDAY, sF),
             DP(sA, sB, sC, s2, sDAY, sF),
             DP(sA, sBA, sC, s1, sDAY, sF),
             DP(sA, sB, sC, sW, sDAY, sF) }

InitAlgebra ==
    /\ engine = "pydsstools"
    /\ opened = 0
    /\ is_open = FALSE
    /\ object = "None"
    /\ catalog \in {<<c>> : c \in OperandCollections}
    /\ file = [p \in InitialPaths |-> 1]
    /\ scopes = 0
    /\ unmatched = 0
    /\ gen = NoGen
    /\ last = Did("init", NoPath, FALSE, FALSE, "ok", {}, <<>>)

CollectionOperator ==
    \E op \in Operators, Y \in OperandCollections :
        \E r \in { CASE op = "|" -> CollOr(catalog[1], Y)
                     [] op = "+" -> CollAdd(catalog[1], Y)
                     [] op = "&" -> CollAnd(catalog[1], Y)
                     [] op = "-" -> CollSub(catalog[1], Y) } :
            /\ last' = Did("collection.operator", NoPath, FALSE, FALSE, "ok",
                           [op |-> op, other |-> Y, result |-> r], <<>>)
            /\ UNCHANGED <<engine, opened, is_open, object, catalog, file,
                           scopes, unmatched, gen>>

\* X.union(Y), X.intersection(Y) and X.difference(Y).
Methods == {"union", "intersection", "difference"}

CollectionMethod ==
    \E name \in Methods, Y \in OperandCollections :
        \E r \in { CASE name = "union" -> union(catalog[1], Y)
                     [] name = "intersection" -> intersection(catalog[1], Y)
                     [] name = "difference" -> difference(catalog[1], Y) } :
            /\ last' = Did("collection.method", NoPath, FALSE, FALSE, "ok",
                           [op |-> name, other |-> Y, result |-> r], <<>>)
            /\ UNCHANGED <<engine, opened, is_open, object, catalog, file,
                           scopes, unmatched, gen>>

\* The paths asked for: the members of the operands, a path with a
\* wildcard outside D and a path that no operand holds.
ContainsPaths ==
    UNION OperandCollections
    \cup {DP(sA, sBW, sC, s1, sDAY, sF), DP(sA, sN, sC, s1, sDAY, sF)}

\* path in X
CollectionContains ==
    \E path \in ContainsPaths :
        /\ last' = Did("collection.contains", path, FALSE, FALSE, "ok",
                       contains(catalog[1], path), <<>>)
        /\ UNCHANGED <<engine, opened, is_open, object, catalog, file,
                       scopes, unmatched, gen>>

NextAlgebra ==
    \/ CollectionOperator
    \/ CollectionMethod
    \/ CollectionContains

SpecAlgebra == InitAlgebra /\ [][NextAlgebra]_vars

NextResolve ==
    \/ CollectionResolve
    \/ CollectionCollapse
    \/ CollectionIter

SpecResolve == InitResolve /\ [][NextResolve]_vars

SpecIter == Init /\ [][NextIter]_vars

(***************************************************************************)
(* DatasetPath on its own: matches, from_str and str                       *)
(***************************************************************************)

sStar == <<"*">>

\* The A parts and B parts of the paths matched against each other:
\* literals, a literal that holds another, a lower-case literal, partly
\* wildcarded parts, the bare wildcard and a bare "*".
MatchA == {sA, sB, sBA, sBW, sW, sa, sStar}
MatchB == {sB, sN, sNW, sW}

MatchPaths ==
    {DP(x, y, sC, d, sDAY, sF) : x \in MatchA, y \in MatchB, d \in {s1, sW}}

InitPaths ==
    /\ engine = "pydsstools"
    /\ opened = 0
    /\ is_open = FALSE
    /\ object = "None"
    /\ catalog = None
    /\ file = [p \in InitialPaths |-> 1]
    /\ scopes = 0
    /\ unmatched = 0
    /\ gen = NoGen
    /\ last = Did("init", NoPath, FALSE, FALSE, "ok", {}, <<>>)

\* a.matches(b): the record holds a, and the pair of b and the answer.
PathMatches ==
    \E a \in MatchPaths, b \in MatchPaths :
        /\ last' = Did("path.matches", a, FALSE, FALSE, "ok",
                       <<b, matches(a, b)>>, <<>>)
        /\ UNCHANGED <<engine, opened, is_open, object, catalog, file,
                       scopes, unmatched, gen>>

sDot == <<".">>

\* The paths whose strings are parsed: literal, empty, "*", "." and ".*"
\* parts, at the first part, in the middle and at the last part.
StrPaths ==
    {DP(a, sB, sC, d, sDAY, f) :
        a \in {sA, sEmpty, sStar, sDot, sW},
        d \in {s1, sEmpty, sStar, sW},
        f \in {sF, sEmpty}}

\* The string of the six segments of p, the leading and the trailing "/"
\* written or not.
Render(p, lead, trail) ==
    (IF lead THEN <<"/">> ELSE <<>>)
    \o SubSeq(PathStr(p), 2, Len(PathStr(p)) - 1)
    \o (IF trail THEN <<"/">> ELSE <<>>)

\* The strings given to from_str: the paths above in the four spellings,
\* the empty string and a string of three segments.
FromStrInputs ==
    {Render(p, lead, trail) : p \in StrPaths, lead \in BOOLEAN, trail \in BOOLEAN}
    \cup {<<>>, <<"/", "A", "/", "B", "/", "C", "/">>}

\* DatasetPath.from_str(path)
PathFromStr ==
    \E path \in FromStrInputs :
        \E r \in {from_str(path)} :
            /\ last' = Did("path.from_str", path, FALSE, FALSE, r.status,
                           r.path, <<>>)
            /\ UNCHANGED <<engine, opened, is_open, object, catalog, file,
                           scopes, unmatched, gen>>

NextPaths ==
    \/ PathMatches
    \/ PathFromStr

SpecPaths == InitPaths /\ [][NextPaths]_vars

(***************************************************************************)
(* Interval: the E part of a path parsed to a pandas offset                *)
(***************************************************************************)

\* The characters of \d and of [a-zA-Z\-] that the model's strings hold.
DigitChars == {"0", "1", "2", "3", "4", "5", "6", "7", "8", "9"}

KeyChars ==
    {"A", "B", "C", "D", "E", "F", "H", "I", "K", "M", "N", "O", "R", "S",
     "T", "U", "W", "Y", "a", "e", "r", "-"}

\* int() of one digit.
DigitValue(c) ==
    CASE c = "0" -> 0 [] c = "1" -> 1 [] c = "2" -> 2 [] c = "3" -> 3
      [] c = "4" -> 4 [] c = "5" -> 5 [] c = "6" -> 6 [] c = "7" -> 7
      [] c = "8" -> 8 [] c = "9" -> 9

\* int(n) of a string of digits.
RECURSIVE IntOf(_)
IntOf(n) ==
    IF n = <<>> THEN 0
    ELSE 10 * IntOf(SubSeq(n, 1, Len(n) - 1)) + DigitValue(n[Len(n)])

\* str.upper() of a character and of a string.
UpperChar(c) ==
    CASE c = "a" -> "A" [] c = "b" -> "B" [] c = "e" -> "E" [] c = "r" -> "R"
      [] OTHER -> c

Upper(str) == [i \in 1..Len(str) |-> UpperChar(str[i])]

\* The length of the longest run of characters of S in str from pos on.
RECURSIVE RunOf(_, _, _)
RunOf(S, str, pos) ==
    IF pos <= Len(str) /\ str[pos] \in S THEN 1 + RunOf(S, str, pos + 1) ELSE 0

\* interval_pattern.match(e): (?P<n>\d+)?(?P<key>[a-zA-Z\-]+) at the start
\* of e.  The digits are taken greedily; a key character is never a digit,
\* so giving digits back cannot make the key match.  n is <<>> for None.
IntervalMatch(e) ==
    CHOOSE y \in
        { IF RunOf(KeyChars, e, d + 1) = 0
          THEN [matched |-> FALSE, n |-> <<>>, key |-> <<>>]
          ELSE [matched |-> TRUE, n |-> SubSeq(e, 1, d),
                key |-> SubSeq(e, d + 1, d + RunOf(KeyChars, e, d + 1))]
          : d \in {RunOf(DigitChars, e, 1)} } : TRUE

\* INTERVAL_TO_PANDAS_OFFSET.get(base, None): the class constructed and the
\* factor AnnualOffset applies to n.
Lookup(base) ==
    CASE base = <<"Y", "E", "A", "R">> -> [cls |-> "YearEnd", multiplier |-> 1]
      [] base = <<"M", "O", "N">> -> [cls |-> "MonthEnd", multiplier |-> 1]
      [] base = <<"M", "O", "N", "T", "H">> -> [cls |-> "MonthEnd", multiplier |-> 1]
      [] base = <<"S", "E", "M", "I", "-", "M", "O", "N", "T", "H">> -> [cls |-> "SemiMonthEnd", multiplier |-> 1]
      [] base = <<"T", "R", "I", "-", "M", "O", "N", "T", "H">> -> [cls |-> "NotImplementedInterval", multiplier |-> 1]
      [] base = <<"W", "E", "E", "K">> -> [cls |-> "Week", multiplier |-> 1]
      [] base = <<"D", "A", "Y">> -> [cls |-> "Day", multiplier |-> 1]
      [] base = <<"H", "O", "U", "R">> -> [cls |-> "Hour", multiplier |-> 1]
      [] base = <<"M", "I", "N">> -> [cls |-> "Minute", multiplier |-> 1]
      [] base = <<"M", "I", "N", "U", "T", "E">> -> [cls |-> "Minute", multiplier |-> 1]
      [] base = <<"S", "E", "C", "O", "N", "D">> -> [cls |-> "Second", multiplier |-> 1]
      [] base = <<"I", "R", "-", "C", "E", "N", "T", "U", "R", "Y">> -> [cls |-> "YearEnd", multiplier |-> 100]
      [] base = <<"I", "R", "-", "D", "E", "C", "A", "D", "E">> -> [cls |-> "YearEnd", multiplier |-> 10]
      [] base = <<"I", "R", "-", "Y", "E", "A", "R">> -> [cls |-> "YearEnd", multiplier |-> 1]
      [] base = <<"I", "R", "-", "M", "O", "N", "T", "H">> -> [cls |-> "MonthEnd", multiplier |-> 1]
      [] base = <<"I", "R", "-", "D", "A", "Y">> -> [cls |-> "Day", multiplier |-> 1]
      [] OTHER -> [cls |-> "None", multiplier |-> 0]

\* The pandas offsets with a fixed width (Tick) and their width in seconds;
\* nanos is this width times n times 10^9.
TickClasses == {"Day", "Hour", "Minute", "Second"}

TickSeconds(cls) ==
    CASE cls = "Day" -> 86400
      [] cls = "Hour" -> 3600
      [] cls = "Minute" -> 60
      [] cls = "Second" -> 1

\* Interval.__init__(e): the status and the offset built.
Interval(e) ==
    CHOOSE y \in
        { IF ~m.matched
          THEN [status |-> "ValueError", offset |-> <<>>]
          ELSE IF Lookup(Upper(m.key)).cls = "None"
          THEN [status |-> "ValueError", offset |-> <<>>]
          ELSE [status |-> "ok",
                offset |-> [cls |-> Lookup(Upper(m.key)).cls,
                            n |-> (IF m.n = <<>> THEN 1 ELSE IntOf(m.n))
                                      * Lookup(Upper(m.key)).multiplier]]
          : m \in {IntervalMatch(e)} } : TRUE

\* offset.name[0].upper() for the offsets without a fixed width.
OffsetKey(offset) ==
    CASE offset.cls = "YearEnd" -> "Y"
      [] offset.cls = "MonthEnd" -> "M"
      [] offset.cls = "Week" -> "W"
      [] offset.cls = "SemiMonthEnd" -> "S"

\* seconds_in_offset
seconds_in_offset ==
    [key \in {"Y", "M", "W"} |->
        CASE key = "Y" -> 365 * 24 * 60 * 60
          [] key = "M" -> 30 * 24 * 60 * 60
          [] key = "W" -> 7 * 24 * 60 * 60]

\* Interval.seconds: offset.nanos / 10^9 for a Tick; nanos raises ValueError
\* for the other offsets, and the table is read with the first letter of
\* the offset's name.
seconds(offset) ==
    IF offset.cls = "NotImplementedInterval"
    THEN [status |-> "AttributeError", value |-> 0]
    ELSE IF offset.cls \in TickClasses
    THEN [status |-> "ok", value |-> offset.n * TickSeconds(offset.cls)]
    ELSE IF OffsetKey(offset) \in DOMAIN seconds_in_offset
    THEN [status |-> "ok", value |-> seconds_in_offset[OffsetKey(offset)]]
    ELSE [status |-> "KeyError", value |-> 0]

\* offset == offset in pandas: two Ticks are equal when their widths are,
\* other offsets when class and n are.
OffsetEq(x, y) ==
    IF x.cls \in TickClasses /\ y.cls \in TickClasses
    THEN x.n * TickSeconds(x.cls) = y.n * TickSeconds(y.cls)
    ELSE x = y

\* Interval.__eq__ and Interval.__lt__ for two Intervals with seconds.
IntervalEq(a, b) == OffsetEq(a, b)

IntervalLt(a, b) == seconds(a).value < seconds(b).value

\* __gt__ as functools.total_ordering derives it from __lt__:
\* not (a < b) and a != b.
IntervalGt(a, b) == ~IntervalLt(a, b) /\ ~IntervalEq(a, b)

\* The strings parsed.
IntervalStrs ==
    { <<"1", "M", "O", "N">>,
      <<"2", "M", "O", "N">>,
      <<"M", "O", "N">>,
      <<"1", "M", "O", "N", "T", "H">>,
      <<"1", "Y", "e", "a", "r">>,
      <<"2", "Y", "E", "A", "R">>,
      <<"1", "W", "E", "E", "K">>,
      <<"2", "W", "E", "E", "K">>,
      <<"1", "D", "A", "Y">>,
      <<"7", "D", "A", "Y">>,
      <<"3", "0", "D", "A", "Y">>,
      <<"1", "H", "O", "U", "R">>,
      <<"2", "4", "H", "O", "U", "R">>,
      <<"6", "0", "M", "I", "N">>,
      <<"1", "0", "M", "I", "N">>,
      <<"6", "0", "S", "E", "C", "O", "N", "D">>,
      <<"I", "R", "-", "D", "E", "C", "A", "D", "E">>,
      <<"1", "0", "Y", "E", "A", "R">>,
      <<"1", "S", "E", "M", "I", "-", "M", "O", "N", "T", "H">>,
      <<"1", "T", "R", "I", "-", "M", "O", "N", "T", "H">>,
      <<"1", "F", "O", "O">>,
      <<"1", "0">> }

InitInterval ==
    /\ engine = "pydsstools"
    /\ opened = 0
    /\ is_open = FALSE
    /\ object = "None"
    /\ catalog = None
    /\ file = [p \in InitialPaths |-> 1]
    /\ scopes = 0
    /\ unmatched = 0
    /\ gen = NoGen
    /\ last = Did("init", NoPath, FALSE, FALSE, "ok", {}, <<>>)

\* Interval(e).seconds: the record holds the offset and the seconds.
IntervalSeconds ==
    \E e \in IntervalStrs :
        \E i \in {Interval(e)} :
            /\ last' = IF i.status # "ok"
                       THEN Did("interval.seconds", e, FALSE, FALSE, i.status,
                                [offset |-> <<>>, seconds |-> 0], <<>>)
                       ELSE Did("interval.seconds", e, FALSE, FALSE,
                                seconds(i.offset).status,
                                [offset |-> i.offset,
                                 seconds |-> seconds(i.offset).value], <<>>)
            /\ UNCHANGED <<engine, opened, is_open, object, catalog, file,
                           scopes, unmatched, gen>>

\* a < b, a == b, a > b and b > a for two Intervals whose seconds are
\* defined.
IntervalCompare ==
    \E ea \in IntervalStrs, eb \in IntervalStrs :
        /\ Interval(ea).status = "ok" /\ Interval(eb).status = "ok"
        /\ \E a \in {Interval(ea).offset}, b \in {Interval(eb).offset} :
            /\ seconds(a).status = "ok" /\ seconds(b).status = "ok"
            /\ last' = Did("interval.compare", ea, FALSE, FALSE, "ok",
                           [other |-> eb, a |-> a, b |-> b,
                            lt |-> IntervalLt(a, b), eq |-> IntervalEq(a, b),
                            gt |-> IntervalGt(a, b), tg |-> IntervalGt(b, a)],
                           <<>>)
        /\ UNCHANGED <<engine, opened, is_open, object, catalog, file,
                       scopes, unmatched, gen>>

NextInterval ==
    \/ IntervalSeconds
    \/ IntervalCompare

SpecInterval == InitInterval /\ [][NextInterval]_vars

(***************************************************************************)
(* RegularTimeseries: path, values, dates, period_type, units, interval    *)
(***************************************************************************)

\* The elements of an array.
Elements(a) == {a[i] : i \in 1..Len(a)}

\* The elements of a set of numbers in ascending order.
RECURSIVE Ascend(_)
Ascend(S) ==
    IF S = {} THEN <<>>
    ELSE <<CHOOSE x \in S : \A y \in S : x <= y>>
         \o Ascend(S \ {CHOOSE x \in S : \A y \in S : x <= y})

\* numpy.intersect1d(a, b): the sorted, unique elements in both arrays.
intersect1d(a, b) == Ascend(Elements(a) \cap Elements(b))

\* values[mask] for mask = [date in new_dates for date in dates]: the values
\* at the places whose date is in new_dates, in their order. The mask is as
\* long as dates; an empty mask selects nothing.
RECURSIVE Masked(_, _, _)
Masked(values, dates, new_dates) ==
    IF dates = <<>> THEN <<>>
    ELSE IF dates[1] \in Elements(new_dates)
         THEN <<values[1]>> \o Masked(Tail(values), Tail(dates), new_dates)
         ELSE Masked(Tail(values), Tail(dates), new_dates)

\* The new path of _do_arithmetic: equal parts are kept, differing parts
\* are joined with "+", and part b is doubled when the paths are equal.
AddPaths(p, q) ==
    [i \in 1..6 |->
        IF p[i] # q[i] THEN p[i] \o <<"+">> \o q[i]
        ELSE IF i = 2 /\ p = q THEN p[i] \o <<"+">> \o q[i]
        ELSE p[i]]

\* RegularTimeseries(...) with a DatasetPath, two arrays and an Interval.
Rts(path, values, dates, period_type, units, interval) ==
    [path |-> path, values |-> values, dates |-> dates,
     period_type |-> period_type, units |-> units, interval |-> interval]

\* RegularTimeseries.__add__ / _do_arithmetic: the status and the sum. A
\* mask that is not empty and not as long as the values raises IndexError.
RtsAdd(self, other) ==
    IF \/ ~IntervalEq(self.interval, other.interval)
       \/ self.period_type # other.period_type
       \/ self.units # other.units
    THEN [status |-> "ValueError", rts |-> <<>>]
    ELSE IF \/ self.dates # <<>> /\ Len(self.values) # Len(self.dates)
            \/ other.dates # <<>> /\ Len(other.values) # Len(other.dates)
    THEN [status |-> "IndexError", rts |-> <<>>]
    ELSE CHOOSE y \in
        { IF Len(l) = Len(r)
          THEN [status |-> "ok",
                rts |-> Rts(AddPaths(self.path, other.path),
                            [i \in 1..Len(l) |-> l[i] + r[i]], new_dates,
                            self.period_type, self.units, self.interval)]
          ELSE IF Len(l) = 1 \/ Len(r) = 1
          THEN [status |-> "ok",
                rts |-> Rts(AddPaths(self.path, other.path),
                            [i \in 1..(Len(l) + Len(r) - 1) |->
                                l[IF Len(l) = 1 THEN 1 ELSE i]
                                    + r[IF Len(r) = 1 THEN 1 ELSE i]],
                            new_dates,
                            self.period_type, self.units, self.interval)]
          ELSE [status |-> "ValueError", rts |-> <<>>]
          : new_dates \in {intersect1d(self.dates, other.dates)},
            l \in {Masked(self.values, self.dates,
                          intersect1d(self.dates, other.dates))},
            r \in {Masked(other.values, other.dates,
                          intersect1d(self.dates, other.dates))} } : TRUE

\* The loop of RegularTimeseries.__eq__ over a field with __iter__:
\* zip(left, right) stops at the end of the shorter one.
ZipEq(left, right) ==
    \A i \in 1..Len(left) : i <= Len(right) => left[i] = right[i]

\* RegularTimeseries.__eq__ for two RegularTimeseries: path, values, dates,
\* period_type and units are compared through zip, interval with !=.
RtsEq(self, other) ==
    /\ ZipEq(self.path, other.path)
    /\ ZipEq(self.values, other.values)
    /\ ZipEq(self.dates, other.dates)
    /\ ZipEq(self.period_type, other.period_type)
    /\ ZipEq(self.units, other.units)
    /\ IntervalEq(self.interval, other.interval)

\* RegularTimeseries(**kwargs), __post_init__ included: lists become arrays
\* and the interval string an Interval.
RtsNew(path, values, dates, period_type, units, e) ==
    IF Interval(e).status # "ok"
    THEN [status |-> Interval(e).status, rts |-> <<>>]
    ELSE [status |-> "ok",
          rts |-> Rts(path, values, dates, period_type, units,
                      Interval(e).offset)]

\* A keyword argument that is not given, and one given as a list.
Absent == [given |-> FALSE, v |-> <<>>]

Given(v) == [given |-> TRUE, v |-> v]

\* RegularTimeseries.update(values=..., dates=...): the lengths are compared
\* when one of the two arguments is given and not empty.
RtsUpdate(self, values, dates) ==
    IF /\ (values.given /\ values.v # <<>>) \/ (dates.given /\ dates.v # <<>>)
       /\ Len(IF values.given THEN values.v ELSE self.values)
              # Len(IF dates.given THEN dates.v ELSE self.dates)
    THEN [status |-> "ValueError", rts |-> <<>>]
    ELSE [status |-> "ok",
          rts |-> [self EXCEPT
                      !.values = IF values.given THEN values.v ELSE @,
                      !.dates = IF dates.given THEN dates.v ELSE @]]

\* The fields of the dataclass.
RtsFields == {"path", "values", "dates", "period_type", "units", "interval"}

\* RegularTimeseries.from_json(obj): every field must be a key of obj; the
\* path is parsed from its string and the interval from its string.
RtsFromJson(obj) ==
    IF RtsFields \ obj.keys # {}
    THEN [status |-> "ValueError", rts |-> <<>>]
    ELSE IF from_str(obj.path).status # "ok"
    THEN [status |-> from_str(obj.path).status, rts |-> <<>>]
    ELSE RtsNew(from_str(obj.path).path, obj.values, obj.dates,
                obj.period_type, obj.units, obj.interval)

\* The last date of the model's series.
MaxDate == 3

\* The date arrays of series as the engines return them: ascending dates,
\* none twice.
RtsDates == {Ascend(S) : S \in SUBSET (1..MaxDate)}

uDAY == <<"D", "A", "Y">>
uDAYS == <<"D", "A", "Y", "S">>
uCFS == <<"C", "F", "S">>
tPER == <<"P", "E", "R">>
tPERAVER == <<"P", "E", "R", "-", "A", "V", "E", "R">>
e1MON == <<"1", "M", "O", "N">>
e1DAY == <<"1", "D", "A", "Y">>

\* Series that the constructor accepts as well, since __post_init__ tests
\* neither the order of the dates nor the lengths: dates out of order, a
\* date twice, more values than dates, values and no dates.
UncheckedOperands ==
    { Rts(DP(sA, sB, sC, sW, e1MON, sF), <<20, 10>>, <<2, 1>>,
          tPERAVER, uDAYS, Interval(e1MON).offset),
      Rts(DP(sA, sB, sC, sW, e1MON, sF), <<10, 10>>, <<1, 1>>,
          tPERAVER, uDAYS, Interval(e1MON).offset),
      Rts(DP(sA, sB, sC, sW, e1MON, sF), <<10, 20, 30>>, <<1, 2>>,
          tPERAVER, uDAYS, Interval(e1MON).offset),
      Rts(DP(sA, sB, sC, sW, e1MON, sF), <<10>>, <<>>,
          tPERAVER, uDAYS, Interval(e1MON).offset) }

\* The series added, for every array of dates: one series whose value at
\* a date is ten times the date, a series of another path whose value is
\* the date, and one of other units and interval; and the series above.
AddOperands ==
    UNION { { Rts(DP(sA, sB, sC, sW, e1MON, sF),
                  [i \in 1..Len(dates) |-> 10 * dates[i]], dates,
                  tPERAVER, uDAYS, Interval(e1MON).offset),
              Rts(DP(sA, sN, sC, sW, e1MON, sF), dates, dates,
                  tPERAVER, uDAYS, Interval(e1MON).offset),
              Rts(DP(sA, sN, sC, sW, e1DAY, sF), dates, dates,
                  tPERAVER, uCFS, Interval(e1DAY).offset) }
            : dates \in RtsDates }
    \cup UncheckedOperands

\* The arrays given to the constructor, to update and in JSON objects.
ListsOfValues == {<<>>, <<1>>, <<1, 2>>, <<2, 2>>, <<1, 2, 1>>}

ListsOfDates == {<<>>, <<1>>, <<1, 2>>, <<1, 2, 3>>}

\* The series compared: arrays and strings of which one begins another,
\* and ones that differ in an element.
EqOperands ==
    { Rts(path, values, dates, period_type, units, Interval(e1MON).offset) :
        path \in {DP(sA, sB, sC, sW, e1MON, sF), DP(sA, sBA, sC, sW, e1MON, sF)},
        values \in {<<1>>, <<1, 2>>},
        dates \in {<<1, 2>>},
        period_type \in {tPER, tPERAVER},
        units \in {uDAY, uDAYS, uCFS} }

InitRts ==
    /\ engine = "pydsstools"
    /\ opened = 0
    /\ is_open = FALSE
    /\ object = "None"
    /\ catalog = None
    /\ file = [p \in InitialPaths |-> 1]
    /\ scopes = 0
    /\ unmatched = 0
    /\ gen = NoGen
    /\ last = Did("init", NoPath, FALSE, FALSE, "ok", {}, <<>>)

\* left + right
RtsAddition ==
    \E left \in AddOperands, right \in AddOperands :
        \E r \in {RtsAdd(left, right)} :
            /\ last' = Did("rts.add", NoPath, FALSE, FALSE, r.status,
                           [left |-> left, right |-> right, rts |-> r.rts],
                           <<>>)
            /\ UNCHANGED <<engine, opened, is_open, object, catalog, file,
                           scopes, unmatched, gen>>

\* left == right
RtsEquals ==
    \E left \in EqOperands, right \in EqOperands :
        /\ last' = Did("rts.eq", NoPath, FALSE, FALSE, "ok",
                       [left |-> left, right |-> right,
                        equal |-> RtsEq(left, right)], <<>>)
        /\ UNCHANGED <<engine, opened, is_open, object, catalog, file,
                       scopes, unmatched, gen>>

\* RegularTimeseries(path=..., values=..., dates=..., ...)
RtsConstruct ==
    \E values \in ListsOfValues, dates \in ListsOfDates :
        \E r \in {RtsNew(DP(sA, sB, sC, sW, e1MON, sF), values, dates,
                         tPERAVER, uDAYS, e1MON)} :
            /\ last' = Did("rts.new", NoPath, FALSE, FALSE, r.status,
                           [values |-> Given(values), dates |-> Given(dates),
                            rts |-> r.rts], <<>>)
            /\ UNCHANGED <<engine, opened, is_open, object, catalog, file,
                           scopes, unmatched, gen>>

\* rts.update(values=..., dates=...) on a series of two values and dates.
RtsUpdating ==
    \E values \in {Absent} \cup {Given(v) : v \in ListsOfValues},
       dates \in {Absent} \cup {Given(d) : d \in ListsOfDates} :
        \E r \in {RtsUpdate(Rts(DP(sA, sB, sC, sW, e1MON, sF), <<1, 2>>,
                                <<1, 2>>, tPERAVER, uDAYS,
                                Interval(e1MON).offset), values, dates)} :
            /\ last' = Did("rts.update", NoPath, FALSE, FALSE, r.status,
                           [values |-> values, dates |-> dates,
                            rts |-> r.rts], <<>>)
            /\ UNCHANGED <<engine, opened, is_open, object, catalog, file,
                           scopes, unmatched, gen>>

\* RegularTimeseries.from_json(obj), obj with every key or without "units".
RtsReadJson ==
    \E values \in ListsOfValues, dates \in ListsOfDates,
       keys \in {RtsFields, RtsFields \ {"units"}} :
        \E r \in {RtsFromJson([keys |-> keys,
                               path |-> PathStr(DP(sA, sB, sC, sW, e1MON, sF)),
                               values |-> values, dates |-> dates,
                               period_type |-> tPERAVER, units |-> uDAYS,
                               interval |-> e1MON])} :
            /\ last' = Did("rts.from_json", NoPath, keys = RtsFields, FALSE,
                           r.status,
                           [values |-> Given(values), dates |-> Given(dates),
                            rts |-> r.rts], <<>>)
            /\ UNCHANGED <<engine, opened, is_open, object, catalog, file,
                           scopes, unmatched, gen>>

NextRts ==
    \/ RtsAddition
    \/ RtsEquals
    \/ RtsConstruct
    \/ RtsUpdating
    \/ RtsReadJson

SpecRts == InitRts /\ [][NextRts]_vars

(***************************************************************************)
(* copy_multiple_rts: datasets copied from a source file to a destination  *)
(***************************************************************************)

\* The source file of a copy: the records of InitialPaths.
CopySource == [p \in InitialPaths |-> 1]

\* DSS.read_rts on the source file SRC: [status, rts, cached, calls]. A
\* path wildcarded outside D is refused before the engine is called; the
\* engine expands a D wildcard over its catalog, which it reads when none is
\* cached, and concatenates the blocks; it reads any other path as it is.
\* (A path with no wildcard outside D never meets the guard of
\* resolve_wildcard.)
CopyRead(src, path, cached) ==
    IF has_wildcard(path)
    THEN [status |-> "WildcardError", rts |-> {}, cached |-> cached,
          calls |-> <<>>]
    ELSE IF path[4] = WILDCARD_STR
    THEN Then(resolve_wildcard(DOMAIN src, path), LAMBDA r :
         Then(<<Call("SRC.read_rts", path), Call("SRC.catalog", NoPath)>>
                  \o (IF cached THEN <<>>
                      ELSE <<Call("SRC.read_catalog", NoPath)>>),
              LAMBDA calls :
             IF r.status # "ok"
             THEN [status |-> r.status, rts |-> {}, cached |-> TRUE,
                   calls |-> calls]
             ELSE IF r.paths = {}
             THEN [status |-> "ValueError", rts |-> {}, cached |-> TRUE,
                   calls |-> calls]
             ELSE [status |-> "ok",
                   rts |-> [path |-> path,
                            data |-> {<<q[4], src[q]>> : q \in r.paths}],
                   cached |-> TRUE, calls |-> calls]))
    ELSE IF path \in DOMAIN src
         THEN [status |-> "ok",
               rts |-> [path |-> path, data |-> {<<path[4], src[path]>>}],
               cached |-> cached, calls |-> <<Call("SRC.read_rts", path)>>]
         ELSE [status |-> "BackendError", rts |-> {}, cached |-> cached,
               calls |-> <<Call("SRC.read_rts", path)>>]

\* DSS.write_rts on the destination file DST: [status, dst, calls]. A path
\* wildcarded outside D is refused before the engine is called; the engine
\* stores the series under a, b, c, e, f of the path, one record per date
\* block.
CopyWrite(dst, path, rts) ==
    IF has_wildcard(path)
    THEN [status |-> "WildcardError", dst |-> dst, calls |-> <<>>]
    ELSE LET recs == {DP(path[1], path[2], path[3], x[1], path[5], path[6]) :
                          x \in rts.data}
         IN  [status |-> "ok",
              dst |-> [q \in DOMAIN dst \cup recs |->
                          IF q \in recs
                          THEN (CHOOSE x \in rts.data : x[1] = q[4])[2]
                          ELSE dst[q]],
              calls |-> <<Call("DST.write_rts", path)>>]

\* DST.write_rts(dst_path, SRC.read_rts(src_path)) on the state st of a
\* copy: [status, dst, written, cached, calls], the exception raised, the
\* destination file, the destination paths written so far, whether SRC
\* holds a catalog, and the engine calls made.
CopyOne(src, st, pair) ==
    Then(CopyRead(src, pair[1], st.cached), LAMBDA r :
        IF r.status # "ok"
        THEN [st EXCEPT !.status = r.status, !.cached = r.cached,
                        !.calls = st.calls \o r.calls]
        ELSE Then(CopyWrite(st.dst, pair[2], r.rts), LAMBDA w :
             IF w.status # "ok"
             THEN [st EXCEPT !.status = w.status, !.cached = r.cached,
                             !.calls = st.calls \o r.calls \o w.calls]
             ELSE [st EXCEPT !.dst = w.dst, !.cached = r.cached,
                             !.written = st.written \cup {pair[2]},
                             !.calls = st.calls \o r.calls \o w.calls]))

\* The state of a copy before any file is opened.
CopyStart(dst) ==
    [status |-> "ok", dst |-> dst, written |-> {}, cached |-> FALSE,
     calls |-> <<>>]

\* `with DSS(src) as SRC, DSS(dst) as DST:` entered, and left: both files
\* are closed whether or not the body raised.
CopyOpened(st) ==
    [st EXCEPT !.calls = st.calls \o <<Call("SRC.open", NoPath),
                                       Call("DST.open", NoPath)>>]

CopyClosed(st) ==
    [st EXCEPT !.calls = st.calls \o <<Call("DST.close", NoPath),
                                       Call("SRC.close", NoPath)>>]

\* The loop of copy_multiple_rts from pair i on: each pair is tested for
\* wildcards, then read from the source and written to the destination,
\* before the next pair is looked at.
RECURSIVE CopyLoop(_, _, _, _)
CopyLoop(src, st, paths, i) ==
    IF i > Len(paths) THEN st
    ELSE IF has_wildcard(paths[i][1]) \/ has_wildcard(paths[i][2])
    THEN [st EXCEPT !.status = "WildcardError"]
    ELSE Then(CopyOne(src, st, paths[i]), LAMBDA r :
             IF r.status # "ok" THEN r ELSE CopyLoop(src, r, paths, i + 1))

\* copy_multiple_rts(src, dst, paths): the files are opened, then the loop
\* runs.
copy_multiple_rts(src, dst, paths) ==
    CopyClosed(CopyLoop(src, CopyOpened(CopyStart(dst)), paths, 1))

\* copy_rts(src, dst, paths): the pair is tested for wildcards before any
\* file is opened.
copy_rts(src, dst, paths) ==
    IF has_wildcard(paths[1]) \/ has_wildcard(paths[2])
    THEN [CopyStart(dst) EXCEPT !.status = "WildcardError"]
    ELSE CopyClosed(CopyOne(src, CopyOpened(CopyStart(dst)), paths))

\* The source paths of a copy: a record, a series with a D wildcard, a
\* path wildcarded in B, and a path the source does not hold.
CopySrcPaths ==
    { DP(sA, sB, sC, s1, sDAY, sF),
      DP(sA, sB, sC, sW, sDAY, sF),
      DP(sA, sBW, sC, s1, sDAY, sF),
      DP(sA, sN, sC, s1, sDAY, sF) }

\* The destination paths of a copy: a new series, the name of a record of
\* the source, and a path wildcarded in B.
CopyDstPaths ==
    { DP(sA, sN, sC, sW, sDAY, sF),
      DP(sA, sB, sC, s1, sDAY, sF),
      DP(sA, sNW, sC, s1, sDAY, sF) }

CopyPairs == CopySrcPaths \X CopyDstPaths

\* The `paths` argument of a call: one pair or two.
CopyCalls == {<<p>> : p \in CopyPairs} \cup {<<p, q>> : p, q \in CopyPairs}

\* The destination file does not hold any record when the copies start.
InitCopy ==
    /\ engine = "pyhecdss"
    /\ opened = 0
    /\ is_open = FALSE
    /\ object = "None"
    /\ catalog = None
    /\ file = [p \in {} |-> 1]
    /\ scopes = 0
    /\ unmatched = 0
    /\ gen = NoGen
    /\ last = Did("init", NoPath, FALSE, FALSE, "ok", {}, <<>>)

\* copy_multiple_rts(src, dst, paths): both files are opened, the loop runs,
\* and both files are closed whether or not it raised; the destination
\* keeps what was written before an exception.
CopyMultipleRts ==
    \E paths \in CopyCalls :
    \E r \in {copy_multiple_rts(CopySource, file, paths)} :
        /\ file' = r.dst
        /\ last' = Did("copy_multiple_rts", NoPath, FALSE, FALSE, r.status,
                       [paths |-> paths, written |-> r.written, before |-> file,
                        after |-> r.dst], r.calls)
        /\ UNCHANGED <<engine, opened, is_open, object, catalog, scopes,
                       unmatched, gen>>

\* copy_rts(src, dst, paths): one pair copied.
CopyRts ==
    \E paths \in CopyPairs :
    \E r \in {copy_rts(CopySource, file, paths)} :
        /\ file' = r.dst
        /\ last' = Did("copy_rts", NoPath, FALSE, FALSE, r.status,
                       [paths |-> paths, written |-> r.written, before |-> file,
                        after |-> r.dst], r.calls)
        /\ UNCHANGED <<engine, opened, is_open, object, catalog, scopes,
                       unmatched, gen>>

NextCopy == CopyMultipleRts \/ CopyRts

SpecCopy == InitCopy /\ [][NextCopy]_vars

(***************************************************************************)
(* Properties                                                              *)
(***************************************************************************)

\* Whether a log of engine calls holds a call of f.
Calls(f, calls) == \E i \in 1..Len(calls) : calls[i].f = f

\* Every __exit__ so far closed a scope that an __enter__ had opened.
ProperlyNested == unmatched = 0

C1_Depth ==
    ProperlyNested =>
        /\ opened = scopes
        /\ is_open = (scopes > 0)

\* The last call was a to_plaintext that ran its `with self:` scope, which
\* enters and leaves one scope within the call.
RanOwnScope(call) ==
    call.op = "to_plaintext" /\ call.value.dst \in {"empty directory", "missing"}

C1_Step ==
    ProperlyNested' =>
        /\ Calls("open", last'.calls) <=>
               \/ last'.op = "enter" /\ scopes = 0 /\ scopes' = 1
               \/ RanOwnScope(last') /\ scopes = 0
        /\ Calls("close", last'.calls) <=>
               \/ last'.op = "exit" /\ scopes = 1 /\ scopes' = 0
               \/ RanOwnScope(last') /\ scopes = 0

\* C1: in a properly nested sequence of __enter__/__exit__ calls (an exit
\* may carry an exception, and to_plaintext enters and leaves a scope of its
\* own), engine.open() is called by the enter that takes the depth from 0
\* to 1 and by no other, engine.close() by the exit that takes it back to 0
\* and by no other; _opened equals the depth, is_open is true while the
\* depth is positive and false at depth 0.
C1_NestedOpenClose == [](C1_Depth) /\ [][C1_Step]_vars

\* An inner scope was left with an exception and the engine stayed open.
C1_Witness ==
    /\ ProperlyNested
    /\ last.op = "exit" /\ last.flag /\ last.calls = <<>>
    /\ scopes = 1 /\ opened = 1 /\ is_open
\* The calls C2 names, as far as Next makes them; read_rts on a wildcarded
\* path runs the body of read_multiple_rts.
C2_Ops == {"read_catalog", "read_rts", "write_rts", "resolve_wildcard"}

\* C2: while the DSS is closed (never opened, or after the outermost exit),
\* every call of read_catalog, read_rts, write_rts or resolve_wildcard
\* fails with ClosedDSSError, whatever the path and whether or not a
\* catalog is cached.
C2_ClosedCallsFail ==
    [][(~is_open /\ last'.op \in C2_Ops) => last'.status = "ClosedDSSError"]_vars

\* The answer of resolve_wildcard(path, drop) from the catalog cat.
FromCatalog(cat, path, drop) ==
    IF drop THEN collapse_dates(resolve_wildcard(cat, path).paths)
    ELSE resolve_wildcard(cat, path).paths

C3_Step ==
    /\ catalog' # catalog => Calls("read_catalog", last'.calls)
    /\ Calls("read_catalog", last'.calls) =>
           /\ last'.op \in {"read_catalog", "to_plaintext"} \/ catalog = None
           /\ catalog' = <<DOMAIN file>>
    /\ last'.op = "write_rts" => catalog' = catalog
    /\ (/\ last'.op = "resolve_wildcard"
        /\ has_wildcard(last'.path)
        /\ catalog # None) =>
           /\ last'.status = "ok"
           /\ last'.value = FromCatalog(catalog[1], last'.path, last'.drop)
           /\ ~Calls("read_catalog", last'.calls)
           /\ catalog' = catalog

\* C3: the catalog is read from the backend on first need only and on
\* read_catalog (to_plaintext calls it too); write_rts leaves the cached catalog as it is, and
\* resolve_wildcard on a wildcarded path answers from the cached catalog,
\* reading nothing, so a dataset written after the catalog was cached is not
\* returned until read_catalog has read the file again.
C3_CatalogCached == [][C3_Step]_vars

\* A new dataset is in the file, the cached catalog does not list it, and
\* resolve_wildcard has just answered a pattern that matches it with nothing.
C3_Witness ==
    /\ DP(sA, sN, sC, s1, sDAY, sF) \in DOMAIN file
    /\ catalog # None
    /\ DP(sA, sN, sC, s1, sDAY, sF) \notin catalog[1]
    /\ last.op = "resolve_wildcard"
    /\ last.path = DP(sA, sNW, sC, sW, sDAY, sF)
    /\ last.status = "ok"
    /\ last.value = {}

\* The paths of a sequence ascend in the order of DatasetPath.
Ascending(seq) ==
    \A i, j \in 1..Len(seq) : i < j => PathLess(seq[i], seq[j])

\* The generator has run its body up to a yield or to its end.
Started == gen.st \in {"running", "done", "closed"} /\ gen.resolved # <<>>

C4_Reads ==
    /\ Started =>
           /\ Ascending(gen.resolved)
           /\ Len(gen.reads) <= Len(gen.resolved)
           /\ gen.reads = SubSeq(gen.resolved, 1, Len(gen.reads))
    /\ gen.st = "running" => Len(gen.reads) = gen.taken
    /\ gen.taken <= Len(gen.reads)

C4_Step ==
    /\ Calls("read_rts", last'.calls) =>
           /\ last'.op = "next"
           /\ gen.st \in {"created", "running"}
           /\ Len(ReadsIn(last'.calls)) = 1
           /\ gen'.reads = gen.reads \o ReadsIn(last'.calls)
    /\ (gen.st = "closed" /\ gen'.st = "closed") => gen'.reads = gen.reads

\* C4: read_multiple_rts reads one path per advance of the iterator, in
\* ascending order of the resolved collection: the engine read_rts calls
\* made so far are a prefix of the sorted resolved paths, after the k-th
\* item has been yielded exactly k calls have been made, and once the
\* consumer has stopped no further read is made for that iterator.
C4_LazySortedReads == [](C4_Reads) /\ [][C4_Step]_vars

\* The consumer took one item of three and stopped: one read was made.
C4_Witness ==
    /\ gen.st = "closed"
    /\ gen.taken = 1
    /\ Len(gen.resolved) = 3
    /\ gen.reads = <<gen.resolved[1]>>

\* The wildcard expansion read_rts works on: the matches of path in the
\* catalog the engine holds (or reads, when it holds none), collapsed over
\* their date blocks when drop_date is set.
Expansion(path, drop) ==
    FromCatalog(IF catalog = None THEN DOMAIN file ELSE catalog[1], path, drop)

\* read_rts has just answered a wildcarded path with expect_single: one
\* member gives its series, any other number UnexpectedDSSReturn.
C5_Answer ==
    \E exp \in {Expansion(last'.path, last'.drop)} :
        IF Cardinality(exp) = 1
        THEN /\ last'.status = "ok"
             /\ last'.value.path \in exp
        ELSE last'.status = "UnexpectedDSSReturn"

C5_Step ==
    (/\ last'.op = "read_rts"
     /\ has_wildcard(last'.path)
     /\ last'.flag
     /\ is_open) => C5_Answer

\* C5 as stated, for every state of the DSS, open or closed: read_rts with a
\* wildcarded path and expect_single returns the series of the one member
\* when the expansion has exactly one member and raises UnexpectedDSSReturn
\* when it has none or more than one.
C5_ExpectSingleAnyState ==
    [][(/\ last'.op = "read_rts"
        /\ has_wildcard(last'.path)
        /\ last'.flag) => C5_Answer]_vars

\* C5: on an open DSS, read_rts with a wildcarded path and expect_single
\* returns the series of the one member when the expansion of the wildcard
\* has exactly one member, and raises UnexpectedDSSReturn when it has none
\* or more than one.
C5_ExpectSingle == [][C5_Step]_vars

\* The pattern matched two series and read_rts raised UnexpectedDSSReturn.
C5_Witness ==
    /\ last.op = "read_rts"
    /\ last.flag
    /\ is_open
    /\ last.path = DP(sA, sBW, sC, s1, sDAY, sF)
    /\ last.status = "UnexpectedDSSReturn"
    /\ Cardinality(FromCatalog(catalog[1], last.path, last.drop)) = 2

\* A wildcard in part a, b, c, e or f of p.
WildcardOutsideD(p) == \E i \in {1, 2, 3, 5, 6} : HasWildcardLiteral(p[i])

C6_Step ==
    (last'.op = "write_rts" /\ WildcardOutsideD(last'.path)) =>
        /\ last'.status = "WildcardError"
        /\ ~Calls("write_rts", last'.calls)
        /\ file' = file
        /\ catalog' = catalog

\* C6: write_rts to a destination with a wildcard in part a, b, c, e or f
\* raises WildcardError without calling the engine's write_rts; the file and
\* the cached catalog stay as they were.
C6_WildcardWriteRejected == [][C6_Step]_vars

\* A write to a destination wildcarded in its E part was rejected while the
\* engine was open and a catalog was cached.
C6_Witness ==
    /\ last.op = "write_rts"
    /\ last.path = DP(sA, sN, sC, s1, sW, sF)
    /\ last.status = "WildcardError"
    /\ is_open
    /\ catalog # None

\* C7: a write_rts to a destination that already holds data at that exact
\* path fails, and the stored data is left as it was.
C7_NoOverwrite ==
    [][(last'.op = "write_rts" /\ last'.path \in DOMAIN file) =>
           (last'.status # "ok" /\ file' = file)]_vars

\* C8: DSS.resolve_wildcard on a path with no wildcard in any part reads
\* no catalog, from the backend or from the cache, and returns the
\* singleton of the path when the file holds a record equal to it, and the
\* empty collection when it does not.
C8_NonWildcardResolve ==
    [][(last'.op = "resolve_wildcard" /\ ~has_any_wildcard(last'.path)) =>
           /\ ~Calls("catalog", last'.calls)
           /\ ~Calls("read_catalog", last'.calls)
           /\ catalog' = catalog
           /\ last'.status = "ok"
           /\ last'.value = {last'.path} \cap DOMAIN file]_vars

\* C9: Catalog.resolve_wildcard of a path without wildcards, on a catalog
\* of concrete paths, returns at most one path, and returns a path exactly
\* when the catalog has a member equal to the path given: that member.
C9_NonWildcardExact ==
    (/\ last.op = "collection.resolve_wildcard"
     /\ \A m \in catalog[1] : ~has_any_wildcard(m)
     /\ ~has_any_wildcard(last.path)) =>
        /\ last.status = "ok"
        /\ last.value = {last.path} \cap catalog[1]

\* C10: resolve_wildcard on a collection with a member that contains a
\* wildcard raises WildcardError, whatever the path given.
C10_WildcardMembersFail ==
    (/\ last.op = "collection.resolve_wildcard"
     /\ \E m \in catalog[1] : has_any_wildcard(m)) =>
        last.status = "WildcardError"

\* The whole of text is matched by the compiled pattern re.
RECURSIVE FullMatch(_, _)
FullMatch(re, text) ==
    IF re = <<>> THEN text = <<>>
    ELSE IF re[1].star
         THEN \/ FullMatch(Tail(re), text)
              \/ /\ text # <<>>
                 /\ AtomMatches(re[1].ch, text[1])
                 /\ FullMatch(re, Tail(text))
         ELSE /\ text # <<>>
              /\ AtomMatches(re[1].ch, text[1])
              /\ FullMatch(Tail(re), Tail(text))

\* Each of the six parts of m is fully matched by the same part of pattern.
PartsMatched(pattern, m) ==
    \A i \in 1..6 : FullMatch(Compile(pattern[i], 1), m[i])

\* C11: on a catalog of concrete paths, resolve_wildcard returns exactly the
\* members whose six parts are each fully matched, up to case, by the same
\* part of the pattern: nothing outside the catalog, no matching member
\* left out, no match over two entries.
C11_ResolveExact ==
    (/\ last.op = "collection.resolve_wildcard"
     /\ \A m \in catalog[1] : ~has_any_wildcard(m)) =>
        /\ last.status = "ok"
        /\ last.value = {m \in catalog[1] : PartsMatched(last.path, m)}

\* The wildcard expansion of one member of a collection in the catalog cat:
\* a member without wildcard stands for itself.
ExpansionOf(p, cat) ==
    IF has_wildcard(p) THEN resolve_wildcard(cat, p).paths ELSE {p}

\* The elements of a sequence.
Range(seq) == {seq[i] : i \in 1..Len(seq)}

C12_Step ==
    (/\ gen.st = "created"
     /\ gen'.st \in {"running", "done"}
     /\ gen.arg.kind = "collection"
     /\ \E p \in gen.arg.paths : has_wildcard(p)
     /\ catalog' # None) =>
        \E expanded \in {UNION {ExpansionOf(p, catalog'[1]) : p \in gen.arg.paths}} :
            Range(gen'.resolved) =
                IF gen.drop THEN collapse_dates(expanded) ELSE expanded

\* C12: read_multiple_rts on a collection with a wildcarded member goes on
\* to read the union of the expansions of the members, a member without
\* wildcard contributing itself; with drop_date the union is then collapsed
\* over its date blocks.
C12_UnionOfExpansions == [][C12_Step]_vars

\* Two wildcarded members with overlapping expansions gave three paths.
C12_Witness ==
    /\ gen.st = "running"
    /\ ~gen.drop
    /\ gen.arg.paths =
           {DP(sA, sBW, sC, s1, sDAY, sF), DP(sA, sB, sCW, sW, sDAY, sF)}
    /\ Range(gen.resolved) = InitialPaths

\* C13: with drop_date, the engine reads of one read_multiple_rts call are
\* one per logical series: every path read has the wildcard marker as its D
\* part, no two reads agree in a, b, c, e and f, and a call that ran to its
\* end without error has read every series of the resolved paths once.
C13_OneReadPerSeries ==
    gen.drop =>
        /\ \A i \in 1..Len(gen.reads) : gen.reads[i][4] = WILDCARD_STR
        /\ \A i, j \in 1..Len(gen.reads) :
               i # j => drop_date(gen.reads[i]) # drop_date(gen.reads[j])
        /\ (gen.st = "done" /\ gen.taken = Len(gen.resolved)) =>
               Range(gen.reads) = Range(gen.resolved)

\* Three records of two series were resolved and two reads were made.
C13_Witness ==
    /\ gen.drop
    /\ gen.st = "done"
    /\ gen.arg.paths = {DP(sA, sW, sC, sW, sDAY, sF)}
    /\ gen.taken = 2
    /\ Len(gen.reads) = 2
    /\ Cardinality(resolve_wildcard(catalog[1], DP(sA, sW, sC, sW, sDAY, sF)).paths) = 3

\* p with the wildcard marker as its D part.
WithWildcardD(p) == [p EXCEPT ![4] = WILDCARD_STR]

\* C14: collapse_dates maps every member to the same path with D set to the
\* wildcard marker, members that differ only in D falling onto one member,
\* and collapsing the result again gives the same collection.
C14_CollapseIdempotent ==
    last.op = "collection.collapse_dates" =>
        /\ last.value = {WithWildcardD(m) : m \in catalog[1]}
        /\ collapse_dates(last.value) = last.value

\* Two date blocks of one series and a second series collapsed to two paths.
C14_Witness ==
    /\ last.op = "collection.collapse_dates"
    /\ catalog[1] = {DP(sA, sB, sC, s1, sDAY, sF), DP(sA, sB, sC, s2, sDAY, sF),
                      DP(sA, sBA, sC, s1, sDAY, sF)}
    /\ Cardinality(last.value) = 2

\* C15: matching is symmetric: a.matches(b) is b.matches(a).
C15_MatchesSymmetric ==
    last.op = "path.matches" =>
        last.value[2] = matches(last.value[1], last.path)

\* The pattern x, a part with a wildcard, matches the whole of the literal y.
RECURSIVE FullMatchCase(_, _)
FullMatchCase(re, text) ==
    IF re = <<>> THEN text = <<>>
    ELSE IF re[1].star
         THEN \/ FullMatchCase(Tail(re), text)
              \/ /\ text # <<>>
                 /\ AtomMatchesCase(re[1].ch, text[1])
                 /\ FullMatchCase(re, Tail(text))
         ELSE /\ text # <<>>
              /\ AtomMatchesCase(re[1].ch, text[1])
              /\ FullMatchCase(Tail(re), Tail(text))

Subsumes(x, y) ==
    /\ HasWildcardLiteral(x)
    /\ ~HasWildcardLiteral(y)
    /\ FullMatchCase(Compile(x, 1), y)

\* Every part is equal or subsumed, all subsumptions from a to b or all
\* from b to a.
SubsumptionMatch(a, b) ==
    \/ \A i \in 1..6 : a[i] = b[i] \/ Subsumes(a[i], b[i])
    \/ \A i \in 1..6 : a[i] = b[i] \/ Subsumes(b[i], a[i])

\* C16: a.matches(b) is true exactly when every part is literally equal or
\* one side's wildcard subsumes the other's literal, all in one direction.
C16_MatchesIsSubsumption ==
    last.op = "path.matches" =>
        last.value[2] = SubsumptionMatch(last.path, last.value[1])

\* C17: for six parts with no "/" in them, parsing the string of the path
\* built from them succeeds and gives that path back.
C17_RoundTrip ==
    last.op = "path.from_str" =>
        \A p \in StrPaths :
            last.path = PathStr(p) => (last.status = "ok" /\ last.value = p)

\* The segment as C18 states it: empty or a bare "*" becomes ".*".
Normalised(seg) == IF seg = <<>> \/ seg = <<"*">> THEN WILDCARD_STR ELSE seg

\* C18: from_str accepts the six segments with or without the leading and
\* the trailing "/" and returns the path of those segments, an empty or
\* bare "*" segment replaced by ".*".  An empty first or last segment is
\* read with its "/" written, so that the six segments are told apart.
C18_FromStrNormalises ==
    last.op = "path.from_str" =>
        \A p \in StrPaths, lead \in BOOLEAN, trail \in BOOLEAN :
            (/\ last.path = Render(p, lead, trail)
             /\ (p[1] = <<>> => lead)
             /\ (p[6] = <<>> => trail)) =>
                /\ last.status = "ok"
                /\ last.value = [i \in 1..6 |-> Normalised(p[i])]

\* s comes before t as strings: at the first place where they differ, s
\* has ended or holds the smaller character.
StrBefore(s, t) ==
    \E k \in 1..(Len(t)) :
        /\ \A j \in 1..(k - 1) : j <= Len(s) /\ s[j] = t[j]
        /\ (k > Len(s) \/ Ord(s[k]) < Ord(t[k]))

\* p comes before q in the lexicographic order over the six parts.
LexBefore(p, q) ==
    \E i \in 1..6 :
        /\ \A j \in 1..(i - 1) : p[j] = q[j]
        /\ StrBefore(p[i], q[i])

\* C19: iterating a collection yields every member exactly once, in
\* ascending lexicographic order over the parts, whatever the order the
\* members were supplied in.
C19_IterSortedOnce ==
    last.op = "collection.iter" =>
        /\ Len(last.value.yielded) = Cardinality(catalog[1])
        /\ Range(last.value.yielded) = catalog[1]
        /\ \A i, j \in 1..Len(last.value.yielded) :
               i < j => LexBefore(last.value.yielded[i], last.value.yielded[j])
        /\ last.value.yielded = Sorted(catalog[1])

\* Five members supplied from the largest down and yielded in order.
C19_Witness ==
    /\ last.op = "collection.iter"
    /\ Len(last.value.supplied) = 5
    /\ \A i \in 1..4 :
           LexBefore(last.value.supplied[i + 1], last.value.supplied[i])
    /\ LexBefore(last.value.yielded[1], last.value.yielded[5])

\* C20: for collections X and Y, X | Y and X + Y hold the paths in X or Y,
\* X & Y the paths in both, X - Y the paths in X and not in Y, each result
\* is a DatasetPathCollection, and
\* len(X | Y) = len(X) + len(Y) - len(X & Y).
C20_SetAlgebra ==
    last.op = "collection.operator" =>
        \E X \in {catalog[1]}, Y \in {last.value.other} :
            /\ last.value.result.type = "DatasetPathCollection"
            /\ last.value.op \in {"|", "+"} =>
                   /\ last.value.result.paths = X \cup Y
                   /\ Cardinality(last.value.result.paths) =
                          Cardinality(X) + Cardinality(Y)
                              - Cardinality(CollAnd(X, Y).paths)
            /\ last.value.op = "&" =>
                   /\ last.value.result.paths = X \cap Y
                   /\ Cardinality(CollOr(X, Y).paths) =
                          Cardinality(X) + Cardinality(Y)
                              - Cardinality(last.value.result.paths)
            /\ last.value.op = "-" => last.value.result.paths = X \ Y

\* A union of two collections that overlap in part: neither holds the other
\* and the union is smaller than the two taken together.
C20_Witness ==
    /\ last.op = "collection.operator"
    /\ last.value.op = "|"
    /\ catalog[1] \cap last.value.other # {}
    /\ catalog[1] \ last.value.other # {}
    /\ last.value.other \ catalog[1] # {}
    /\ Cardinality(last.value.result.paths) = 3

\* C21: X.union(Y) holds the paths in X or Y, X.intersection(Y) the paths
\* in both, X.difference(Y) the paths in X and not in Y, and each result is
\* a DatasetPathCollection.
C21_NamedMethods ==
    last.op = "collection.method" =>
        \E X \in {catalog[1]}, Y \in {last.value.other} :
            /\ last.value.result.type = "DatasetPathCollection"
            /\ last.value.op = "union" => last.value.result.paths = X \cup Y
            /\ last.value.op = "intersection" =>
                   last.value.result.paths = X \cap Y
            /\ last.value.op = "difference" => last.value.result.paths = X \ Y

\* C22: p in C is true exactly when some member of C matches p.
C22_ContainsByMatching ==
    last.op = "collection.contains" =>
        last.value = (\E m \in catalog[1] : matches(m, last.path))

\* C23: for two valid Intervals, a < b exactly when a.seconds < b.seconds,
\* a == b exactly when unit and multiplier agree, exactly one of a < b,
\* a == b, a > b holds, and never both a > b and b > a.
C23_TotalOrder ==
    last.op = "interval.compare" =>
        \E v \in {last.value} :
            /\ v.lt <=> (seconds(v.a).value < seconds(v.b).value)
            /\ v.eq <=> (v.a = v.b)
            /\ (v.lt /\ ~v.eq /\ ~v.gt) \/ (~v.lt /\ v.eq /\ ~v.gt)
                   \/ (~v.lt /\ ~v.eq /\ v.gt)
            /\ ~(v.gt /\ v.tg)

\* C30: for a unit whose seconds are defined and n >= 1,
\* Interval('<n><U>').seconds is n times Interval('1<U>').seconds.
C30_SecondsScale ==
    (/\ last.op = "interval.seconds"
     /\ IntervalMatch(last.path).matched
     /\ Interval(<<"1">> \o IntervalMatch(last.path).key).status = "ok") =>
        \E m \in {IntervalMatch(last.path)} :
            \E n \in {IF m.n = <<>> THEN 1 ELSE IntOf(m.n)},
               one \in {seconds(Interval(<<"1">> \o m.key).offset)} :
                (one.status = "ok" /\ n >= 1) =>
                    /\ last.status = "ok"
                    /\ last.value.seconds = n * one.value

\* The value of a series at a date.
ValueAt(rts, date) == rts.values[CHOOSE i \in 1..Len(rts.dates) : rts.dates[i] = date]

\* C24: the sum of two series with equal units, period type and interval
\* has, in either operand order, exactly the dates in both operands, as
\* many values as dates, and at each date the sum of the operands' values.
C24_AddOnIntersection ==
    (/\ last.op = "rts.add"
     /\ last.value.left.units = last.value.right.units
     /\ last.value.left.period_type = last.value.right.period_type
     /\ last.value.left.interval = last.value.right.interval) =>
        \E l \in {last.value.left}, r \in {last.value.right},
           sum \in {last.value.rts}, mus \in {RtsAdd(last.value.right, last.value.left)} :
            /\ last.status = "ok"
            /\ Elements(sum.dates) = Elements(l.dates) \cap Elements(r.dates)
            /\ Len(sum.dates) = Cardinality(Elements(l.dates) \cap Elements(r.dates))
            /\ Len(sum.values) = Len(sum.dates)
            /\ \A i \in 1..Len(sum.dates) :
                   sum.values[i] = ValueAt(l, sum.dates[i]) + ValueAt(r, sum.dates[i])
            /\ mus.status = "ok"
            /\ mus.rts.dates = sum.dates
            /\ mus.rts.values = sum.values

\* C25: a RegularTimeseries obtained from the constructor, update or
\* from_json has as many values as dates; an attempt with different lengths
\* raises instead.
C25_LengthInvariant ==
    (/\ last.op \in {"rts.new", "rts.update", "rts.from_json"}
     /\ last.status = "ok") =>
        Len(last.value.rts.values) = Len(last.value.rts.dates)

\* C26: two series compare equal only if path, values, dates, period_type,
\* units and interval are each exactly equal.
C26_EqualAllFields ==
    last.op = "rts.eq" =>
        (last.value.equal => last.value.left = last.value.right)

\* C27: after every __enter__ and __exit__, an __exit__ with no matching
\* __enter__ included, the counter _opened is not negative and the engine
\* is open exactly when the counter is positive.
C27_CounterNotNegative ==
    /\ opened >= 0
    /\ is_open <=> (opened > 0)

\* C28: when copy_multiple_rts raises WildcardError because a pair holds a
\* wildcard, no dataset of that call has been written to the destination.
C28_AllOrNothing ==
    (last.op = "copy_multiple_rts" /\ last.status = "WildcardError")
        => (last.value.written = {} /\ last.value.after = last.value.before)

\* C29: over a catalog of concrete paths, a member m is in
\* resolve_wildcard(p) exactly when p.matches(m).
C29_ResolveAgreesWithMatches ==
    ( /\ last.op = "collection.resolve_wildcard"
      /\ last.status = "ok"
      /\ \A m \in catalog[1] : ~has_any_wildcard(m) )
        => \A m \in catalog[1] :
               (m \in last.value) <=> matches(last.path, m)

====
